---- MODULE Spec2Model ----
(***************************************************************************)
(* Locset algebra of arbor (arbor/morph/locset.cpp): construction of       *)
(* locset expressions and their resolution (thingify) against a provider   *)
(* holding a morphology, an embedding and a name dictionary.               *)
(*                                                                         *)
(* Positions are fixed-point numbers: the integer k stands for k/PosOne,   *)
(* so PosOne is the position 1.0.  All lengths are exact on the grid of    *)
(* the inputs drawn below (every division made by the model is exact).     *)
(***************************************************************************)
EXTENDS Integers, Sequences, FiniteSets, TLC

VARIABLES
    morph,      \* the provider's morphology: parent branch of every branch
    argOrder,   \* the build's evaluation order of function arguments
    ls,         \* the locset expression built so far
    out,        \* outcome of the last constructor call or thingify call
    calls,      \* number of thingify calls made in this session
    seen,       \* evaluations of uniform locsets recorded so far
    running,    \* the concurrent thingify calls of the threads
    mech,       \* a mechanism of the GPU back end and the shared state it uses
    dom,        \* a call of fvm_intdom: its arguments and its results
    tree,       \* a call of branches_fast: its argument and its result
    sim         \* a recipe and the simulation constructed from it

vars == <<morph, argOrder, ls, out, calls, seen, running, mech, dom, tree, sim>>

\* The variables outside the sessions of the locset algebra.
others == <<running, mech, dom, tree, sim>>

-----------------------------------------------------------------------------
(* Bounds of the model.                                                    *)

MaxList == 2        \* longest location list literal
MaxDraw == 2        \* largest draw index of a uniform locset
MaxCalls == 3       \* thingify calls in one session of SpecUniform

-----------------------------------------------------------------------------
(* Geometry primitives.                                                    *)

PosOne == 240

mnpos == 0 - 1

NaN == 0 - (PosOne * PosOne)

Loc(b, x) == [branch |-> b, pos |-> x]

Cable(b, p, d) == [branch |-> b, prox_pos |-> p, dist_pos |-> d]

prox_loc(c) == Loc(c.branch, c.prox_pos)

dist_loc(c) == Loc(c.branch, c.dist_pos)

\* operator< on mlocation: lexicographic on (branch, pos); every comparison
\* with a NaN position is false.
LocLess(a, b) ==
    \/ a.branch < b.branch
    \/ a.branch = b.branch /\ a.pos # NaN /\ b.pos # NaN /\ a.pos < b.pos

CableLess(a, b) ==
    \/ a.branch < b.branch
    \/ a.branch = b.branch /\ a.prox_pos < b.prox_pos
    \/ a.branch = b.branch /\ a.prox_pos = b.prox_pos /\ a.dist_pos < b.dist_pos

\* test_invariants(mlocation): the position lies in [0,1].
test_invariants(x) == 0 <= x.pos /\ x.pos <= PosOne

Range(s) == {s[i] : i \in DOMAIN s}

IsSorted(s) == \A i \in 1..(Len(s) - 1) : ~LocLess(s[i + 1], s[i])

NoDuplicates(s) == \A i, j \in DOMAIN s : i # j => s[i] # s[j]

\* The elements of a finite set of locations as a sorted list.
RECURSIVE SetToSortedLocs(_)
SetToSortedLocs(S) ==
    IF S = {} THEN <<>>
    ELSE LET m == CHOOSE x \in S : \A y \in S : ~LocLess(y, x)
         IN  <<m>> \o SetToSortedLocs(S \ {m})

RECURSIVE SetToSortedCables(_)
SetToSortedCables(S) ==
    IF S = {} THEN <<>>
    ELSE LET m == CHOOSE x \in S : \A y \in S : ~CableLess(y, x)
         IN  <<m>> \o SetToSortedCables(S \ {m})

-----------------------------------------------------------------------------
(* The morphology: morph[b + 1] is the parent of branch b, or mnpos.       *)

num_branches(m) == Len(m)

branch_parent(m, b) == m[b + 1]

Branches(m) == 0..(Len(m) - 1)

\* Branches without children.
terminal_branches(m) ==
    {b \in Branches(m) : \A c \in Branches(m) : branch_parent(m, c) # b}

RECURSIVE BranchAncestor(_, _, _)
\* a is a proper ancestor branch of b.
BranchAncestor(m, a, b) ==
    LET p == branch_parent(m, b)
    IN  p # mnpos /\ (p = a \/ BranchAncestor(m, a, p))

\* p is a proper ancestor of q in the tree order of the morphology.
LocAncestor(m, p, q) ==
    \/ p.branch = q.branch /\ p.pos < q.pos
    \/ BranchAncestor(m, p.branch, q.branch)

\* maxset: the elements of L that are no proper ancestor of another one.
maxset(m, L) ==
    SetToSortedLocs({x \in Range(L) : \A y \in Range(L) : ~LocAncestor(m, x, y)})

\* minset: the elements of L that have no proper ancestor in L.
minset(m, L) ==
    SetToSortedLocs({x \in Range(L) : \A y \in Range(L) : ~LocAncestor(m, y, x)})

-----------------------------------------------------------------------------
(* The embedding: branch lengths, and lengths of paths down the tree.      *)

BranchLength(b) == IF b = 0 THEN 3 ELSE IF b = 1 THEN 2 ELSE 1

RECURSIVE HeadDistance(_, _)
\* Path length from the root to the head (position 0) of branch b.
HeadDistance(m, b) ==
    LET p == branch_parent(m, b)
    IN  IF p = mnpos THEN 0
        ELSE HeadDistance(m, p) + PosOne * BranchLength(p)

RootDistance(m, x) == HeadDistance(m, x.branch) + x.pos * BranchLength(x.branch)

\* embedding::integrate_length(proximal, distal)
integrate_length(m, a, x) == RootDistance(m, x) - RootDistance(m, a)

\* embedding::integrate_length(cable)
cable_length(c) == (c.dist_pos - c.prox_pos) * BranchLength(c.branch)

-----------------------------------------------------------------------------
(* Extents: canonical cable lists (sorted; cables of one branch that       *)
(* overlap or touch are merged).                                           *)

RECURSIVE MergeCables(_)
MergeCables(s) ==
    IF Len(s) < 2 THEN s
    ELSE LET a == s[1]
             b == s[2]
         IN  IF a.branch = b.branch /\ b.prox_pos <= a.dist_pos
             THEN MergeCables(
                    <<Cable(a.branch, a.prox_pos,
                            IF a.dist_pos < b.dist_pos THEN b.dist_pos ELSE a.dist_pos)>>
                    \o SubSeq(s, 3, Len(s)))
             ELSE <<a>> \o MergeCables(Tail(s))

\* mextent(mcable_list)
mextent(cs) == MergeCables(SetToSortedCables(Range(cs)))

\* Two distinct cables of an extent meet: the distal end of a branch and the
\* head of a child branch, or the heads of two branches with the same parent.
CablesMeet(m, a, b) ==
    \/ a.dist_pos = PosOne /\ b.prox_pos = 0 /\ branch_parent(m, b.branch) = a.branch
    \/ b.dist_pos = PosOne /\ a.prox_pos = 0 /\ branch_parent(m, a.branch) = b.branch
    \/ /\ a.branch # b.branch
       /\ a.prox_pos = 0 /\ b.prox_pos = 0
       /\ branch_parent(m, a.branch) = branch_parent(m, b.branch)

RECURSIVE ConnectedTo(_, _, _)
\* The cables of C connected to the set S of cables.
ConnectedTo(m, S, C) ==
    LET T == S \cup {c \in C : \E s \in S : CablesMeet(m, s, c)}
    IN  IF T = S THEN S ELSE ConnectedTo(m, T, C)

RECURSIVE ComponentsOf(_, _)
ComponentsOf(m, C) ==
    IF C = {} THEN <<>>
    ELSE LET c0 == CHOOSE x \in C : \A y \in C : ~CableLess(y, x)
             K  == ConnectedTo(m, {c0}, C)
         IN  <<SetToSortedCables(K)>> \o ComponentsOf(m, C \ K)

\* components(morphology, mextent): the maximal connected sub-extents.
components(m, ext) == ComponentsOf(m, Range(ext))

-----------------------------------------------------------------------------
(* Outcomes of a call: a value, or the error it raised.                    *)

Ok(v) == [st |-> "ok", val |-> v]

Fail(e) == [st |-> e, val |-> <<>>]

-----------------------------------------------------------------------------
(* Regions.  A region is a cable list literal or a named reference; the    *)
(* resolution of a literal checks every branch against the morphology.     *)

RegionNames == {"all"}

region_dict(m, name) == [b \in 1..Len(m) |-> Cable(b - 1, 0, PosOne)]

thingify_region(r, m) ==
    IF r.tag = "reg_named"
    THEN IF r.name \in RegionNames THEN Ok(region_dict(m, r.name))
         ELSE Fail("unbound_name")
    ELSE IF \E i \in DOMAIN r.cables : r.cables[i].branch >= num_branches(m)
         THEN Fail("no_such_branch")
         ELSE Ok(mextent(r.cables))

-----------------------------------------------------------------------------
(* Operations on resolved location lists.                                  *)

\* sum: multiset concatenation.
sum(a, b) == a \o b

\* join: set union, without duplicates.
join(a, b) == SetToSortedLocs(Range(a) \cup Range(b))

\* intersection: the locations in both lists.
intersection(a, b) == SetToSortedLocs(Range(a) \cap Range(b))

\* support: sort and deduplicate.
support(a) == SetToSortedLocs(Range(a))

\* util::sort on a list of locations.
SortLocs(s) == SortSeq(s, LocLess)

-----------------------------------------------------------------------------
(* The counter-based generator: the sample of draw i under a seed, as a    *)
(* number of RngCells-ths in [0, 1).                                       *)

RngCells == 4

Sample(seed, i) == (seed * 3 + i * 5 + 1) % RngCells

\* util::uniform(seed, left, right): the samples of draws left..right.
uniform_samples(seed, left, right) ==
    [k \in 1..(right - left + 1) |-> Sample(seed, left + k - 1)]

-----------------------------------------------------------------------------
(* The provider's locset dictionary.                                       *)

LocsetNames == {"origin"}

locset_dict(m, name) == <<Loc(0, 0)>>

\* embedding::segment_ends(): the ends of the segments, one per branch here.
segment_ends(m) ==
    SetToSortedLocs({Loc(b, 0) : b \in Branches(m)} \cup {Loc(b, PosOne) : b \in Branches(m)})

\* reg::complete: the extent together with every zero-length cable at a fork
\* point that coincides with an end point of one of its cables.
complete(m, ext) ==
    LET C == Range(ext)
        down == {Cable(b, 0, 0) : b \in {x \in Branches(m) :
                    \E c \in C : c.dist_pos = PosOne /\ branch_parent(m, x) = c.branch}}
        up == {Cable(branch_parent(m, c.branch), PosOne, PosOne) :
                    c \in {x \in C : x.prox_pos = 0 /\ branch_parent(m, x.branch) # mnpos}}
        side == {Cable(b, 0, 0) : b \in {x \in Branches(m) :
                    \E c \in C : c.prox_pos = 0
                                 /\ branch_parent(m, x) = branch_parent(m, c.branch)}}
    IN  mextent(SetToSortedCables(C \cup down \cup up \cup side))

-----------------------------------------------------------------------------
(* Resolution of locset expressions: thingify_, one definition per node.   *)
(* The parameter j is what a read past the end of an array yields in this  *)
(* call: the process crashes, or the location j.loc is found there.        *)

\* Both arguments of a call f(thingify(lhs), thingify(rhs)) are evaluated, in
\* the order of the build; the first error raised is the call's error.
Both(l, r) ==
    IF argOrder = "lhs_first"
    THEN IF l.st # "ok" THEN l ELSE r
    ELSE IF r.st # "ok" THEN r ELSE l

thingify_nil(x, m) == Ok(<<>>)

thingify_location(x, m) ==
    IF ~test_invariants(x.loc) THEN Fail("invalid_mlocation")
    ELSE IF x.loc.branch >= num_branches(m) THEN Fail("no_such_branch")
    ELSE Ok(<<x.loc>>)

\* The branch test with > in place of >=.
thingify_location_list_OffByOne(x, m) ==
    IF \E i \in DOMAIN x.ll : x.ll[i].branch > num_branches(m)
    THEN Fail("no_such_branch")
    ELSE Ok(x.ll)

thingify_location_list(x, m) ==
    IF \E i \in DOMAIN x.ll : x.ll[i].branch >= num_branches(m)
    THEN Fail("no_such_branch")
    ELSE Ok(x.ll)

thingify_terminal(x, m) ==
    Ok(SetToSortedLocs({Loc(b, PosOne) : b \in terminal_branches(m)}))

thingify_root(x, m) == Ok(<<Loc(0, 0)>>)

thingify_segments(x, m) == Ok(segment_ends(m))

\* The loop run with b <= n_branch.
thingify_on_branches_OneMore(ob, m) ==
    Ok([k \in 1..(num_branches(m) + 1) |-> Loc(k - 1, ob.pos)])

thingify_on_branches(ob, m) ==
    Ok([k \in 1..num_branches(m) |-> Loc(k - 1, ob.pos)])

thingify_named(n, m) ==
    IF n.name \in LocsetNames THEN Ok(locset_dict(m, n.name))
    ELSE Fail("unbound_name")

\* The distal ends of the cables, without the reduction to the maximal set.
thingify_most_distal_AllEnds(n, m) ==
    LET r == thingify_region(n.reg, m)
    IN  IF r.st # "ok" THEN r
        ELSE Ok([i \in DOMAIN r.val |-> dist_loc(r.val[i])])

thingify_most_distal(n, m) ==
    LET r == thingify_region(n.reg, m)
    IN  IF r.st # "ok" THEN r
        ELSE Ok(maxset(m, [i \in DOMAIN r.val |-> dist_loc(r.val[i])]))

\* The reduction to the minimal set applied to the distal ends.
thingify_most_proximal_DistalEnds(n, m) ==
    LET r == thingify_region(n.reg, m)
    IN  IF r.st # "ok" THEN r
        ELSE Ok(minset(m, [i \in DOMAIN r.val |-> dist_loc(r.val[i])]))

thingify_most_proximal(n, m) ==
    LET r == thingify_region(n.reg, m)
    IN  IF r.st # "ok" THEN r
        ELSE Ok(minset(m, [i \in DOMAIN r.val |-> prox_loc(r.val[i])]))

RECURSIVE BoundaryOf(_, _, _)
\* The loop of thingify_(boundary_): L after the components from index i on.
BoundaryOf(m, comps, L) ==
    IF comps = <<>> THEN L
    ELSE LET comp == Head(comps)
             distal_set == [i \in DOMAIN comp |-> dist_loc(comp[i])]
             L1 == sum(L, <<prox_loc(comp[1])>>)
             L2 == sum(L1, maxset(m, distal_set))
         IN  BoundaryOf(m, Tail(comps), L2)

\* The accumulated list returned without support().
thingify_boundary_NoSupport(n, m) ==
    LET r == thingify_region(n.reg, m)
    IN  IF r.st # "ok" THEN r
        ELSE Ok(BoundaryOf(m, components(m, r.val), <<>>))

thingify_boundary(n, m) ==
    LET r == thingify_region(n.reg, m)
    IN  IF r.st # "ok" THEN r
        ELSE Ok(support(BoundaryOf(m, components(m, r.val), <<>>)))

RECURSIVE CBoundaryOf(_, _, _)
CBoundaryOf(m, comps, L) ==
    IF comps = <<>> THEN L
    ELSE LET ccomp == complete(m, Head(comps))
             proximal_set == [i \in DOMAIN ccomp |-> prox_loc(ccomp[i])]
             distal_set == [i \in DOMAIN ccomp |-> dist_loc(ccomp[i])]
             L1 == sum(L, minset(m, proximal_set))
             L2 == sum(L1, maxset(m, distal_set))
         IN  CBoundaryOf(m, Tail(comps), L2)

thingify_cboundary(n, m) ==
    LET r == thingify_region(n.reg, m)
    IN  IF r.st # "ok" THEN r
        ELSE Ok(support(CBoundaryOf(m, components(m, r.val), <<>>)))

\* The relpos==1 loop keeping only the last of the ends at the largest
\* distance.
MostDistalOf_LastOnly(m, prox, comp, most_distal, diameter) ==
    LET RECURSIVE Go(_, _, _)
        Go(cs, md, dia) ==
            IF cs = <<>> THEN md
            ELSE LET x == dist_loc(Head(cs))
                     d == integrate_length(m, prox, x)
                 IN  IF d >= dia THEN Go(Tail(cs), <<x>>, d) ELSE Go(Tail(cs), md, dia)
    IN  Go(comp, most_distal, diameter)

RECURSIVE MostDistalOf(_, _, _, _, _)
\* The relpos==1 loop over the cables of a component: the distal ends at the
\* largest distance from prox seen so far, and that distance.
MostDistalOf(m, prox, comp, most_distal, diameter) ==
    IF comp = <<>> THEN most_distal
    ELSE LET x == dist_loc(Head(comp))
             d == integrate_length(m, prox, x)
         IN  IF d > diameter THEN MostDistalOf(m, prox, Tail(comp), <<x>>, d)
             ELSE IF d = diameter
                  THEN MostDistalOf(m, prox, Tail(comp), Append(most_distal, x), diameter)
                  ELSE MostDistalOf(m, prox, Tail(comp), most_distal, diameter)

Min(a, b) == IF a < b THEN a ELSE b

RECURSIVE MaxOf(_)
MaxOf(s) == IF Len(s) = 1 THEN s[1]
            ELSE LET t == MaxOf(Tail(s)) IN IF s[1] > t THEN s[1] ELSE t

\* The 0<relpos<1 loop with the position taken from the start of the branch
\* instead of the proximal end of the cable.
InteriorOf_FromBranchStart(m, prox, comp, d) ==
    LET RECURSIVE Go(_)
        Go(cs) ==
            IF cs = <<>> THEN <<>>
            ELSE LET c == Head(cs)
                     d0 == integrate_length(m, prox, prox_loc(c))
                     d1 == integrate_length(m, prox, dist_loc(c))
                     pos == IF d0 = d1 THEN 0
                            ELSE ((d - d0) * (c.dist_pos - c.prox_pos)) \div (d1 - d0)
                 IN  IF d0 <= d /\ d <= d1
                     THEN <<Loc(c.branch, IF pos < PosOne THEN pos ELSE PosOne)>> \o Go(Tail(cs))
                     ELSE Go(Tail(cs))
    IN  Go(comp)

RECURSIVE InteriorOf(_, _, _, _)
\* The 0<relpos<1 loop over the cables of a component: one point on every
\* cable whose range of distances from prox contains d.
InteriorOf(m, prox, comp, d) ==
    IF comp = <<>> THEN <<>>
    ELSE LET c == Head(comp)
             d0 == integrate_length(m, prox, prox_loc(c))
             d1 == integrate_length(m, prox, dist_loc(c))
             pos == IF d0 = d1 THEN c.prox_pos
                    ELSE c.prox_pos + ((d - d0) * (c.dist_pos - c.prox_pos)) \div (d1 - d0)
             rest == InteriorOf(m, prox, Tail(comp), d)
         IN  IF d0 <= d /\ d <= d1
             THEN <<Loc(c.branch, Min(PosOne, pos))>> \o rest
             ELSE rest

RECURSIVE OnComponentsOf(_, _, _)
OnComponentsOf(m, relpos, comps) ==
    IF comps = <<>> THEN <<>>
    ELSE LET comp == Head(comps)
             prox == prox_loc(comp[1])
             diameter == MaxOf([i \in DOMAIN comp |->
                                   integrate_length(m, prox, dist_loc(comp[i]))])
             here == IF relpos = 0 THEN <<prox>>
                     ELSE IF relpos = PosOne
                          THEN MostDistalOf(m, prox, comp, <<prox>>, 0)
                          ELSE InteriorOf(m, prox, comp, (relpos * diameter) \div PosOne)
         IN  here \o OnComponentsOf(m, relpos, Tail(comps))

\* The region resolved before the test of relpos.
thingify_on_components_RegionFirst(n, m) ==
    LET r == thingify_region(n.reg, m)
    IN  IF r.st # "ok" THEN r
        ELSE IF n.relpos < 0 \/ n.relpos > PosOne THEN Ok(<<>>)
        ELSE Ok(SortLocs(OnComponentsOf(m, n.relpos, components(m, r.val))))

thingify_on_components(n, m) ==
    IF n.relpos < 0 \/ n.relpos > PosOne THEN Ok(<<>>)
    ELSE LET r == thingify_region(n.reg, m)
         IN  IF r.st # "ok" THEN r
             ELSE Ok(SortLocs(OnComponentsOf(m, n.relpos, components(m, r.val))))

-----------------------------------------------------------------------------
(* Uniform locset.                                                         *)

RECURSIVE PartialSums(_, _)
\* util::make_partition: the divisions 0, l1, l1+l2, ... of the lengths.
PartialSums(lengths, from) ==
    IF lengths = <<>> THEN <<from>>
    ELSE <<from>> \o PartialSums(Tail(lengths), from + Head(lengths))

IntLess(a, b) == a < b

\* Some sample lies beyond the range of the last cable: the loop
\* "while (e > range.second) range = lengths_part[++cable_idx]" then runs
\* cable_idx past the last cable.
RunsPast(random_pos, bounds) ==
    \E i \in DOMAIN random_pos : random_pos[i] > bounds[Len(bounds)]

RECURSIVE MatchSamples(_, _, _, _)
\* The loop matching the sorted samples to cables.  cable_idx is the index
\* (from 0) of the current cable; the range of cable k is
\* (bounds[k + 1], bounds[k + 2]).
MatchSamples(random_pos, cable_idx, reg_cables, bounds) ==
    IF random_pos = <<>> THEN <<>>
    ELSE LET e == Head(random_pos)
             idx == CHOOSE k \in cable_idx..(Len(reg_cables) - 1) :
                       /\ ~(e > bounds[k + 2])
                       /\ \A i \in cable_idx..(k - 1) : e > bounds[i + 2]
             cable == reg_cables[idx + 1]
             first == bounds[idx + 1]
             second == bounds[idx + 2]
             pos_on_branch ==
                 IF second = first THEN NaN
                 ELSE cable.prox_pos
                      + ((cable.dist_pos - cable.prox_pos) * (e - first))
                        \div (second - first)
         IN  <<Loc(cable.branch, pos_on_branch)>>
             \o MatchSamples(Tail(random_pos), idx, reg_cables, bounds)

\* The samples of the draws scaled to the length of the region, sorted.
ScaledSamples(u, region_length) ==
    LET samples == uniform_samples(u.seed, u.left, u.right)
    IN  SortSeq([k \in DOMAIN samples |-> (samples[k] * region_length) \div RngCells],
                IntLess)

thingify_uniform(u, m, j) ==
    LET r == thingify_region(u.reg, m)
    IN  IF r.st # "ok" THEN r
        ELSE LET reg_cables == r.val
                 bounds == PartialSums([i \in DOMAIN reg_cables |->
                                           cable_length(reg_cables[i])], 0)
                 region_length == bounds[Len(bounds)]
                 random_pos == ScaledSamples(u, region_length)
             IN  IF reg_cables = <<>>
                 THEN \* lengths_part[0] and reg_cables[0] are read past the end
                      IF j.crash THEN Fail("crash")
                      ELSE Ok([k \in DOMAIN random_pos |-> j.loc])
                 ELSE IF RunsPast(random_pos, bounds)
                      THEN IF j.crash THEN Fail("crash")
                           ELSE Ok([k \in DOMAIN random_pos |-> j.loc])
                      ELSE Ok(MatchSamples(random_pos, 0, reg_cables, bounds))

-----------------------------------------------------------------------------
(* Composite locsets.                                                      *)

RECURSIVE thingify(_, _, _)

\* The right operand left unresolved when the left one is empty.
thingify_land_ShortCut(P, m, j) ==
    LET l == thingify(P.lhs, m, j)
        r == thingify(P.rhs, m, j)
    IN  IF l.st = "ok" /\ l.val = <<>> THEN l
        ELSE IF l.st = "ok" /\ r.st = "ok" THEN Ok(intersection(l.val, r.val))
        ELSE Both(l, r)

thingify_land(P, m, j) ==
    LET l == thingify(P.lhs, m, j)
        r == thingify(P.rhs, m, j)
    IN  IF l.st = "ok" /\ r.st = "ok" THEN Ok(intersection(l.val, r.val))
        ELSE Both(l, r)

\* The two lists concatenated in place of their union.
thingify_lor_Concat(P, m, j) ==
    LET l == thingify(P.lhs, m, j)
        r == thingify(P.rhs, m, j)
    IN  IF l.st = "ok" /\ r.st = "ok" THEN Ok(sum(l.val, r.val))
        ELSE Both(l, r)

thingify_lor(P, m, j) ==
    LET l == thingify(P.lhs, m, j)
        r == thingify(P.rhs, m, j)
    IN  IF l.st = "ok" /\ r.st = "ok" THEN Ok(join(l.val, r.val))
        ELSE Both(l, r)

\* The two lists united in place of their concatenation.
thingify_lsum_Union(P, m, j) ==
    LET l == thingify(P.lhs, m, j)
        r == thingify(P.rhs, m, j)
    IN  IF l.st = "ok" /\ r.st = "ok" THEN Ok(join(l.val, r.val))
        ELSE Both(l, r)

thingify_lsum(P, m, j) ==
    LET l == thingify(P.lhs, m, j)
        r == thingify(P.rhs, m, j)
    IN  IF l.st = "ok" /\ r.st = "ok" THEN Ok(sum(l.val, r.val))
        ELSE Both(l, r)

thingify_lsup(P, m, j) ==
    LET a == thingify(P.arg, m, j)
    IN  IF a.st # "ok" THEN a ELSE Ok(support(a.val))

\* std::lower_bound over the distal ends of the cables: the index (from 1)
\* of the first cable whose distal end is not less than l, or one past the
\* last cable.
lower_bound(cables, l) ==
    CHOOSE k \in 1..(Len(cables) + 1) :
        /\ k = Len(cables) + 1 \/ ~LocLess(dist_loc(cables[k]), l)
        /\ \A i \in 1..(k - 1) : LocLess(dist_loc(cables[i]), l)

\* The test without the comparison with the proximal end of the cable.
RestrictKeeps_NoProxTest(cables, l) ==
    LET it == lower_bound(cables, l)
    IN  /\ it # Len(cables) + 1
        /\ cables[it].branch = l.branch

\* The test of one location in the loop of thingify_(lrestrict_).
RestrictKeeps(cables, l) ==
    LET it == lower_bound(cables, l)
    IN  /\ it # Len(cables) + 1
        /\ cables[it].branch = l.branch
        /\ cables[it].prox_pos <= l.pos

\* The loop started at the second location of the list.
RestrictLoop_SkipsFirst(cables, locs) ==
    SelectSeq(IF locs = <<>> THEN locs ELSE Tail(locs), LAMBDA l : RestrictKeeps(cables, l))

\* The loop of thingify_(lrestrict_) over the resolved locations.
RestrictLoop(cables, locs) ==
    SelectSeq(locs, LAMBDA l : RestrictKeeps(cables, l))

thingify_lrestrict(P, m, j) ==
    LET r == thingify_region(P.reg, m)
    IN  IF r.st # "ok" THEN r
        ELSE LET a == thingify(P.ls, m, j)
             IN  IF a.st # "ok" THEN a
                 ELSE Ok(RestrictLoop(r.val, a.val))

\* thingify(locset, provider): dispatch on the node.
thingify(e, m, j) ==
    CASE e.tag = "nil" -> thingify_nil(e, m)
      [] e.tag = "location" -> thingify_location(e, m)
      [] e.tag = "location_list" -> thingify_location_list(e, m)
      [] e.tag = "terminal" -> thingify_terminal(e, m)
      [] e.tag = "root" -> thingify_root(e, m)
      [] e.tag = "segments" -> thingify_segments(e, m)
      [] e.tag = "on_branches" -> thingify_on_branches(e, m)
      [] e.tag = "named" -> thingify_named(e, m)
      [] e.tag = "most_distal" -> thingify_most_distal(e, m)
      [] e.tag = "most_proximal" -> thingify_most_proximal(e, m)
      [] e.tag = "boundary" -> thingify_boundary(e, m)
      [] e.tag = "cboundary" -> thingify_cboundary(e, m)
      [] e.tag = "on_components" -> thingify_on_components(e, m)
      [] e.tag = "uniform" -> thingify_uniform(e, m, j)
      [] e.tag = "land" -> thingify_land(e, m, j)
      [] e.tag = "lor" -> thingify_lor(e, m, j)
      [] e.tag = "lsum" -> thingify_lsum(e, m, j)
      [] e.tag = "lsup" -> thingify_lsup(e, m, j)
      [] e.tag = "lrestrict" -> thingify_lrestrict(e, m, j)

-----------------------------------------------------------------------------
(* Constructors of locset expressions.                                     *)

nil == [tag |-> "nil"]

location_(loc) == [tag |-> "location", loc |-> loc]

location_list(ll) == [tag |-> "location_list", ll |-> ll]

terminal == [tag |-> "terminal"]

root == [tag |-> "root"]

segment_boundaries == [tag |-> "segments"]

on_branches(pos) == [tag |-> "on_branches", pos |-> pos]

named(name) == [tag |-> "named", name |-> name]

most_distal(reg) == [tag |-> "most_distal", reg |-> reg]

most_proximal(reg) == [tag |-> "most_proximal", reg |-> reg]

boundary(reg) == [tag |-> "boundary", reg |-> reg]

cboundary(reg) == [tag |-> "cboundary", reg |-> reg]

on_components(relpos, reg) == [tag |-> "on_components", relpos |-> relpos, reg |-> reg]

uniform(reg, left, right, seed) ==
    [tag |-> "uniform", reg |-> reg, left |-> left, right |-> right, seed |-> seed]

intersect(lhs, rhs) == [tag |-> "land", lhs |-> lhs, rhs |-> rhs]

join_(lhs, rhs) == [tag |-> "lor", lhs |-> lhs, rhs |-> rhs]

sum_(lhs, rhs) == [tag |-> "lsum", lhs |-> lhs, rhs |-> rhs]

support_(arg) == [tag |-> "lsup", arg |-> arg]

restrict(l, reg) == [tag |-> "lrestrict", ls |-> l, reg |-> reg]

\* location(branch, pos): the outcome of the constructor call.
location(branch, pos) ==
    IF ~test_invariants(Loc(branch, pos)) THEN Fail("invalid_mlocation")
    ELSE Ok(location_(Loc(branch, pos)))

-----------------------------------------------------------------------------
(* Inputs of the sessions.                                                 *)

Morphologies ==
    { <<>>, <<mnpos>>, <<mnpos, mnpos>>, <<mnpos, 0, 0>>, <<mnpos, 0, 1>> }

\* The least branch id that no morphology of the sessions has.
BadBranch ==
    CHOOSE n \in 0..8 : /\ \A m \in Morphologies : Len(m) <= n
                         /\ \E mm \in Morphologies : Len(mm) = n

LitBranches == {0, 1, BadBranch}

LitPositions == {0, 120, 168, PosOne, PosOne + 24, 0 - 24}

ListPoints == {Loc(0, 168), Loc(0, 0), Loc(1, PosOne), Loc(BadBranch, 0), Loc(0, PosOne + 24)}

RECURSIVE SeqsUpTo(_, _)
SeqsUpTo(S, n) ==
    IF n = 0 THEN {<<>>}
    ELSE LET T == SeqsUpTo(S, n - 1)
         IN  T \cup {Append(t, x) : t \in {q \in T : Len(q) = n - 1}, x \in S}

LocationLists == SeqsUpTo(ListPoints, MaxList)

RegionCablePool ==
    { Cable(0, 0, 120), Cable(0, 0, PosOne), Cable(0, 168, PosOne), Cable(0, 120, 120),
      Cable(1, 0, PosOne), Cable(2, 0, PosOne) }

CableRegion(C) == [tag |-> "reg_cables", cables |-> SetToSortedCables(C)]

NamedRegion(n) == [tag |-> "reg_named", name |-> n]

BadRegion == CableRegion({Cable(BadBranch, 0, PosOne)})

MaxCables == 2

Regions ==
    {CableRegion(C) : C \in {D \in SUBSET RegionCablePool : Cardinality(D) <= MaxCables}}
    \cup {BadRegion, NamedRegion("all"), NamedRegion("nowhere")}

\* The regions of the leaves that composite locsets are built from.
WrapRegions ==
    {CableRegion({}), CableRegion({Cable(0, 0, PosOne)}), BadRegion, NamedRegion("nowhere")}

RelPositions == {0 - 120, 0, 120, PosOne, PosOne + 120}

Seeds == {0, 1}

NameInputs == {"origin", "nowhere"}

\* The operands combined with the current expression by a binary constructor.
Operands == {nil, location_(Loc(BadBranch, 0)), named("nowhere")}

Junk == {[crash |-> TRUE, loc |-> Loc(0, 0)],
         [crash |-> FALSE, loc |-> Loc(0, 0)],
         [crash |-> FALSE, loc |-> Loc(BadBranch, NaN)]}

\* The regions named in an expression.
RECURSIVE RegionsIn(_)
RegionsIn(e) ==
    CASE e.tag \in {"most_distal", "most_proximal", "boundary", "cboundary",
                    "on_components", "uniform"} -> {e.reg}
      [] e.tag = "lrestrict" -> {e.reg} \cup RegionsIn(e.ls)
      [] e.tag = "lsup" -> RegionsIn(e.arg)
      [] e.tag \in {"land", "lor", "lsum"} -> RegionsIn(e.lhs) \cup RegionsIn(e.rhs)
      [] OTHER -> {}

IsLeaf(e) == e.tag \notin {"land", "lor", "lsum", "lsup", "lrestrict"}

\* Number of restrict nodes on top of a leaf.
RECURSIVE RestrictDepth(_)
RestrictDepth(e) == IF e.tag = "lrestrict" THEN 1 + RestrictDepth(e.ls) ELSE 0

MaxNest == 2

\* The leaves that the constructors of composite locsets are applied to.
Wrappable(e) == IsLeaf(e) /\ RegionsIn(e) \subseteq WrapRegions

Built == [op |-> "construct", st |-> "ok", val |-> <<>>]

Result(op, o) == [op |-> op, st |-> o.st, val |-> o.val]

-----------------------------------------------------------------------------
(* The session: a caller builds a locset expression with the constructors  *)
(* and resolves it against the provider.                                   *)

\* No thread, no mechanism and no call of fvm_intdom.
NoThreads == <<>>

NoMech == [pc |-> "none"]

NoDom == [pc |-> "none"]

NoTree == [pc |-> "none"]

NoSim == [pc |-> "none"]

OthersIdle ==
    running = NoThreads /\ mech = NoMech /\ dom = NoDom /\ tree = NoTree /\ sim = NoSim

NoCall == [op |-> "none", st |-> "ok", val |-> <<>>]

Init ==
    /\ morph \in Morphologies
    /\ argOrder \in {"lhs_first", "rhs_first"}
    /\ ls = nil
    /\ out = NoCall
    /\ calls = 0
    /\ seen = {}
    /\ OthersIdle

\* A leaf constructor starts the expression of a session.
Fresh == out.op = "none"

\* A constructor applied to the expression built so far.
Growing == out.op = "construct" /\ out.st = "ok"

Construct(e) ==
    /\ ls' = e
    /\ out' = Built
    /\ UNCHANGED <<morph, argOrder, calls, seen, others>>

CallNil == Fresh /\ Construct(nil)

CallLocation ==
    \E b \in LitBranches, pos \in LitPositions :
        LET o == location(b, pos)
        IN  /\ Fresh
            /\ ls' = IF o.st = "ok" THEN o.val ELSE ls
            /\ out' = [op |-> "construct", st |-> o.st, val |-> <<>>]
            /\ UNCHANGED <<morph, argOrder, calls, seen, others>>

CallLocationList == \E ll \in LocationLists : Fresh /\ Construct(location_list(ll))

CallTerminal == Fresh /\ Construct(terminal)

CallRoot == Fresh /\ Construct(root)

CallSegmentBoundaries == Fresh /\ Construct(segment_boundaries)

CallOnBranches == \E pos \in {0, 120, PosOne + 24} : Fresh /\ Construct(on_branches(pos))

CallNamed == \E n \in NameInputs : Fresh /\ Construct(named(n))

CallMostDistal == \E r \in Regions : Fresh /\ Construct(most_distal(r))

CallMostProximal == \E r \in Regions : Fresh /\ Construct(most_proximal(r))

CallBoundary == \E r \in Regions : Fresh /\ Construct(boundary(r))

CallCBoundary == \E r \in Regions : Fresh /\ Construct(cboundary(r))

CallOnComponents ==
    \E relpos \in RelPositions, r \in Regions :
        Fresh /\ Construct(on_components(relpos, r))

CallUniform ==
    \E r \in Regions, left \in 0..MaxDraw, right \in 0..MaxDraw, seed \in Seeds :
        Fresh /\ left <= right /\ Construct(uniform(r, left, right, seed))

CallSupport ==
    /\ Growing
    /\ Wrappable(ls)
    /\ Construct(support_(ls))

\* restrict(ls, reg) applied to the expression built so far.
Restricting(r) ==
    /\ Growing
    /\ RestrictDepth(ls) < MaxNest
    /\ RegionsIn(ls) \subseteq {r}
    /\ Construct(restrict(ls, r))

CallRestrict ==
    \E r \in WrapRegions :
        /\ Wrappable(ls) \/ ls.tag = "lrestrict"
        /\ Restricting(r)

CallIntersect ==
    \E o \in Operands :
        /\ Growing
        /\ Wrappable(ls)
        /\ \/ Construct(intersect(ls, o))
           \/ Construct(intersect(o, ls))

CallJoin ==
    \E o \in Operands :
        /\ Growing
        /\ Wrappable(ls)
        /\ \/ Construct(join_(ls, o))
           \/ Construct(join_(o, ls))

CallSum ==
    \E o \in Operands :
        /\ Growing
        /\ Wrappable(ls)
        /\ \/ Construct(sum_(ls, o))
           \/ Construct(sum_(o, ls))

Thingify ==
    /\ Growing
    /\ \E j \in Junk : out' = Result("thingify", thingify(ls, morph, j))
    /\ UNCHANGED <<morph, argOrder, ls, calls, seen, others>>

Next ==
    \/ CallNil
    \/ CallLocation
    \/ CallLocationList
    \/ CallTerminal
    \/ CallRoot
    \/ CallSegmentBoundaries
    \/ CallOnBranches
    \/ CallNamed
    \/ CallMostDistal
    \/ CallMostProximal
    \/ CallBoundary
    \/ CallCBoundary
    \/ CallOnComponents
    \/ CallUniform
    \/ CallSupport
    \/ CallRestrict
    \/ CallIntersect
    \/ CallJoin
    \/ CallSum
    \/ Thingify

Spec == Init /\ [][Next]_vars

-----------------------------------------------------------------------------
(* Sessions that restrict location lists to regions.                       *)

InitRestrict ==
    /\ morph \in Morphologies
    /\ argOrder = "lhs_first"
    /\ ls = nil
    /\ out = NoCall
    /\ calls = 0
    /\ seen = {}
    /\ OthersIdle

RestrictList == \E r \in Regions : Restricting(r)

NextRestrict ==
    \/ CallLocationList
    \/ RestrictList
    \/ Thingify

SpecRestrict == InitRestrict /\ [][NextRestrict]_vars

-----------------------------------------------------------------------------
(* Sessions that resolve uniform locsets several times, with other calls   *)
(* of thingify in between.  seen holds the first evaluation of a uniform   *)
(* locset made in the session.                                             *)

UniformMorphologies == { <<mnpos>>, <<mnpos, 0, 0>> }

UniformRegions ==
    { CableRegion({}),
      CableRegion({Cable(0, 0, PosOne)}),
      CableRegion({Cable(0, 0, 120), Cable(0, 168, PosOne)}),
      CableRegion({Cable(0, 120, 120), Cable(1, 0, PosOne)}),
      BadRegion }

OtherCalls ==
    { root, terminal, location_list(<<Loc(0, 168), Loc(0, 0)>>),
      uniform(CableRegion({Cable(0, 0, PosOne)}), 0, MaxDraw, 0),
      uniform(CableRegion({}), 0, 0, 1) }

InitUniform ==
    /\ morph \in UniformMorphologies
    /\ argOrder = "lhs_first"
    /\ ls = nil
    /\ out = NoCall
    /\ calls = 0
    /\ seen = {}
    /\ OthersIdle

Evaluate(e) ==
    /\ calls < MaxCalls
    /\ ls' = e
    /\ \E j \in Junk : out' = Result("thingify", thingify(e, morph, j))
    /\ calls' = calls + 1
    /\ UNCHANGED <<morph, argOrder, others>>

\* thingify of a uniform locset; a session draws from one region with one
\* seed, over one draw range or several.
ThingifyUniform ==
    \E r \in UniformRegions, left \in 0..MaxDraw, right \in 0..MaxDraw, seed \in Seeds :
        /\ left <= right
        /\ \A s \in seen : s.e.reg = r /\ s.e.seed = seed /\ s.e # uniform(r, left, right, seed)
        /\ Evaluate(uniform(r, left, right, seed))
        /\ seen' = seen \cup {[e |-> ls', o |-> out']}

\* A uniform locset evaluated before is evaluated once more.
ThingifyAgain ==
    \E s \in seen :
        /\ Evaluate(s.e)
        /\ seen' = seen \cup {[e |-> ls', o |-> out']}

\* Another call of thingify, made before or in between.
ThingifyOther ==
    \E e \in OtherCalls :
        /\ Evaluate(e)
        /\ UNCHANGED seen

NextUniform ==
    \/ ThingifyUniform
    \/ ThingifyAgain
    \/ ThingifyOther

SpecUniform == InitUniform /\ [][NextUniform]_vars

-----------------------------------------------------------------------------
(* Sessions of the binary constructors: intersect, join and sum of two     *)
(* location lists, resolved on one morphology.                             *)

BinaryMorphologies == { <<>>, <<mnpos>>, <<mnpos, 0, 0>> }

BinaryPoints == {Loc(0, 168), Loc(0, 0), Loc(BadBranch, 0)}

BinaryOperands ==
    {location_list(l) : l \in SeqsUpTo(BinaryPoints, MaxList)} \cup {root, named("nowhere")}

InitBinary ==
    /\ morph \in BinaryMorphologies
    /\ argOrder = "lhs_first"
    /\ ls = nil
    /\ out = NoCall
    /\ calls = 0
    /\ seen = {}
    /\ OthersIdle

IntersectLists ==
    \E o \in BinaryOperands :
        Growing /\ ls.tag = "location_list" /\ Construct(intersect(ls, o))

JoinLists ==
    \E o \in BinaryOperands :
        Growing /\ ls.tag = "location_list" /\ Construct(join_(ls, o))

SumLists ==
    \E o \in BinaryOperands :
        Growing /\ ls.tag = "location_list" /\ Construct(sum_(ls, o))

NextBinary ==
    \/ CallLocationList
    \/ IntersectLists
    \/ JoinLists
    \/ SumLists
    \/ Thingify

SpecBinary == InitBinary /\ [][NextBinary]_vars

-----------------------------------------------------------------------------
(* Concurrent resolution: threads call thingify on expressions of their    *)
(* own against one provider.  A call reads the provider and the expression *)
(* and writes only its own result, so a call is two steps: it is entered   *)
(* and, after any steps of the other threads, it returns.                  *)

MaxThreads == 2

Threads == 1..MaxThreads

ConcurrentCalls ==
    { named("origin"), named("nowhere"), on_branches(120),
      restrict(location_list(<<Loc(0, 168), Loc(1, PosOne)>>), CableRegion({Cable(0, 0, PosOne)})),
      uniform(CableRegion({Cable(0, 0, PosOne)}), 0, 1, 0),
      uniform(CableRegion({}), 0, 0, 0) }

IdleThread == [pc |-> "idle", e |-> nil, alone |-> NoCall, o |-> NoCall]

InitConcurrent ==
    /\ morph \in Morphologies
    /\ argOrder \in {"lhs_first", "rhs_first"}
    /\ ls = nil
    /\ out = NoCall
    /\ calls = 0
    /\ seen = {}
    /\ running = [t \in Threads |-> IdleThread]
    /\ mech = NoMech
    /\ dom = NoDom
    /\ tree = NoTree
    /\ sim = NoSim

\* Thread t enters thingify(e, p); alone is the outcome of the same call
\* made while no other call runs.
EnterThingify(t) ==
    \E e \in ConcurrentCalls, j \in Junk :
        /\ running[t].pc = "idle"
        /\ running' = [running EXCEPT ![t] =
                          [pc |-> "called", e |-> e,
                           alone |-> Result("thingify", thingify(e, morph, j)),
                           o |-> NoCall]]
        /\ UNCHANGED <<morph, argOrder, ls, out, calls, seen, mech, dom, tree, sim>>

\* The call of thread t returns.
ReturnThingify(t) ==
    \E j \in Junk :
        /\ running[t].pc = "called"
        /\ running' = [running EXCEPT ![t].pc = "done",
                                      ![t].o = Result("thingify", thingify(running[t].e, morph, j))]
        /\ UNCHANGED <<morph, argOrder, ls, out, calls, seen, mech, dom, tree, sim>>

NextConcurrent == \E t \in Threads : EnterThingify(t) \/ ReturnThingify(t)

SpecConcurrent == InitConcurrent /\ [][NextConcurrent]_vars

-----------------------------------------------------------------------------
(* The mechanism of the GPU back end.  data_ and indices_ are the two       *)
(* blocks; a pointer of the derived class is an offset into its block, or  *)
(* nullptr.  mech.shared is the shared state, mech.alignment the alignment  *)
(* of the arrays.                                                           *)

nullptr == 0 - 1

\* The content of an entry of indices_ that was allocated and not written.
Unwritten == 0 - 2

\* math::round_up(v, b): the least multiple of b that is not less than v.
round_up(v, b) == IF v % b = 0 THEN v ELSE v + (b - (v % b))

\* util::index_into(sub, super): for every element of sub its index in super.
index_into(sub, super) ==
    [k \in DOMAIN sub |-> (CHOOSE i \in DOMAIN super : super[i] = sub[k]) - 1]

\* util::value_by_key on a table of (key, pointer) pairs: the index of the
\* first entry with the key, or 0.
value_by_key(table, key) ==
    IF \E i \in DOMAIN table : table[i] = key
    THEN CHOOSE i \in DOMAIN table : table[i] = key /\ \A k \in 1..(i - 1) : table[k] # key
    ELSE 0

\* array(n, v) and iarray(n).
array(n, v) == [k \in 1..n |-> v]

iarray(n) == [k \in 1..n |-> Unwritten]

\* memory::copy(values, device_view(block + ptr, n)) and memory::fill.
copy(block, ptr, values) ==
    [k \in DOMAIN block |->
        IF ptr < k /\ k <= ptr + Len(values) THEN values[k - ptr] ELSE block[k]]

fill(block, ptr, n, v) == copy(block, ptr, array(n, v))

\* device_view(block + ptr, n): the n entries from the offset ptr on.
device_view(block, ptr, n) == [k \in 1..n |-> block[ptr + k]]

\* The loop over ion_state_table(): the views bound before the first ion
\* without shared state, and whether such an ion was met.
MissingIons(tbl, shared) == {i \in DOMAIN tbl : tbl[i] \notin DOMAIN shared.ion_data}

FirstMissing(tbl, shared) ==
    CHOOSE i \in MissingIons(tbl, shared) : \A k \in MissingIons(tbl, shared) : i <= k

BindIonViews(M) ==
    LET tbl == M.ion_state_table
    IN  [i \in DOMAIN tbl |->
            IF MissingIons(tbl, M.shared) = {} \/ i < FirstMissing(tbl, M.shared)
            THEN tbl[i] ELSE M.ion_view[i]]

RECURSIVE BindFields(_, _, _)
\* The fields laid out with the width in place of the padded width.
BindFields_Unpadded(M, W, i) ==
    IF i > Len(M.field_table) THEN M
    ELSE LET ptr == i * M.width_
             key == M.field_table[i]
             M1 == [M EXCEPT !.field_ptr[i] = ptr]
             M2 == IF key \in DOMAIN M.field_default_table
                   THEN [M1 EXCEPT !.data_ = fill(M1.data_, ptr, M.width_,
                                                  M.field_default_table[key])]
                   ELSE M1
         IN  IF i = Len(M.field_table) THEN M2 ELSE BindFields(M2, W, i + 1)

\* The loop over field_table() from field i on: field_ptr set, default filled.
BindFields(M, W, i) ==
    IF i > Len(M.field_table) THEN M
    ELSE LET ptr == i * W
             key == M.field_table[i]
             M1 == [M EXCEPT !.field_ptr[i] = ptr]
             M2 == IF key \in DOMAIN M.field_default_table
                   THEN [M1 EXCEPT !.data_ = fill(M1.data_, ptr, M.width_,
                                                  M.field_default_table[key])]
                   ELSE M1
         IN  BindFields(M2, W, i + 1)

RECURSIVE BindIonIndices(_, _, _, _)
\* The CVs of the layout stored in place of the indices into the ion.
BindIonIndices_CvAsIndex(M, W, cv, i) ==
    IF i > M.n_ion_ THEN [M EXCEPT !.st = "ok"]
    ELSE LET ion == M.ion_index_table[i]
         IN  IF ion \notin DOMAIN M.shared.ion_data
             THEN [M EXCEPT !.st = "logic_error"]
             ELSE LET index_start == i * W
                      M1 == [M EXCEPT !.ion_index_ptr[i] = index_start,
                                      !.indices_ = copy(M.indices_, index_start, cv)]
                  IN  IF i = M.n_ion_ THEN [M1 EXCEPT !.st = "ok"]
                      ELSE BindIonIndices(M1, W, cv, i + 1)

\* The loop over ion_index_table() from ion i on.
BindIonIndices(M, W, cv, i) ==
    IF i > M.n_ion_ THEN [M EXCEPT !.st = "ok"]
    ELSE LET ion == M.ion_index_table[i]
         IN  IF ion \notin DOMAIN M.shared.ion_data
             THEN [M EXCEPT !.st = "logic_error"]
             ELSE LET mech_ion_index == index_into(cv, M.shared.ion_data[ion])
                      index_start == i * W
                      M1 == [M EXCEPT !.ion_index_ptr[i] = index_start,
                                      !.indices_ = copy(M.indices_, index_start, mech_ion_index)]
                  IN  BindIonIndices(M1, W, cv, i + 1)

\* mechanism::instantiate(id, shared, pos_data): the mechanism afterwards,
\* with st the outcome of the call.
instantiate(M, id, pos_data) ==
    LET W == round_up(Len(pos_data.cv), M.alignment)
        M0 == [M EXCEPT !.mechanism_id_ = id, !.width_ = Len(pos_data.cv),
                        !.n_ion_ = Len(M.ion_state_table)]
        M1 == [M0 EXCEPT !.ion_view = BindIonViews(M0)]
    IN  IF MissingIons(M.ion_state_table, M.shared) # {}
        THEN [M1 EXCEPT !.st = "logic_error"]
        ELSE IF M1.width_ = 0 THEN [M1 EXCEPT !.st = "ok"]
        ELSE LET n_field == Len(M.field_table)
                 M2 == [M1 EXCEPT !.data_ = copy(array((1 + n_field) * W, NaN), 0,
                                                 pos_data.weight),
                                  !.weight_ = 0]
                 M3 == BindFields(M2, W, 1)
                 M4 == [M3 EXCEPT !.indices_ = copy(iarray((1 + M3.n_ion_) * W), 0,
                                                    pos_data.cv),
                                  !.node_index_ = 0]
             IN  BindIonIndices(M4, W, pos_data.cv, 1)

\* set_parameter without the test of values.size().
set_parameter_NoSizeTest(M, key, values) ==
    LET opt_ptr == value_by_key(M.field_table, key)
    IN  IF opt_ptr # 0
        THEN IF M.width_ > 0
             THEN [M EXCEPT !.data_ = copy(M.data_, M.field_ptr[opt_ptr], values),
                            !.st = "ok"]
             ELSE [M EXCEPT !.st = "ok"]
        ELSE [M EXCEPT !.st = "logic_error"]

\* mechanism::set_parameter(key, values).
set_parameter(M, key, values) ==
    LET opt_ptr == value_by_key(M.field_table, key)
    IN  IF opt_ptr # 0
        THEN IF Len(values) # M.width_ THEN [M EXCEPT !.st = "logic_error"]
             ELSE IF M.width_ > 0
                  THEN [M EXCEPT !.data_ = copy(M.data_, M.field_ptr[opt_ptr], values),
                                 !.st = "ok"]
                  ELSE [M EXCEPT !.st = "ok"]
        ELSE [M EXCEPT !.st = "logic_error"]

\* mechanism::set_global(key, value).
set_global(M, key, value) ==
    IF key \in DOMAIN M.global_table
    THEN [M EXCEPT !.global_table[key] = value, !.st = "ok"]
    ELSE [M EXCEPT !.st = "logic_error"]

-----------------------------------------------------------------------------
(* Sessions of one mechanism: it is constructed with its tables, then       *)
(* instantiated on a layout and its parameters and globals are set.  A     *)
(* failed instantiate is fatal: the mechanism is not used afterwards.       *)

FieldTables == { <<>>, <<"gbar">>, <<"gbar", "e">> }

FieldDefaultTables == { [x \in {} |-> 0], [x \in {"gbar"} |-> 7] }

\* The ion state table and the ion index table of a mechanism.
IonTables ==
    { [state |-> <<>>, index |-> <<>>],
      [state |-> <<"ca">>, index |-> <<"ca">>],
      [state |-> <<"ca">>, index |-> <<"na">>],
      [state |-> <<"ca", "na">>, index |-> <<"ca", "na">>] }

\* shared.ion_data: the node index of every ion of the shared state.
IonData ==
    { [x \in {} |-> <<>>],
      [x \in {"ca"} |-> <<0, 1, 2, 3>>],
      [x \in {"ca", "na"} |-> IF x = "ca" THEN <<0, 1, 2, 3>> ELSE <<1, 2, 3>>] }

Alignments == {1, 4}

\* layouts: the CVs of the instances, and a weight for every instance.
Layouts ==
    { [cv |-> <<>>, weight |-> <<>>],
      [cv |-> <<2>>, weight |-> <<11>>],
      [cv |-> <<1, 3>>, weight |-> <<11, 12>>],
      [cv |-> <<1, 1, 3>>, weight |-> <<12, 11, 13>>] }

ParameterKeys == {"gbar", "e", "none"}

ParameterValues == { <<>>, <<5>>, <<5, 6>>, <<5, 5, 5>> }

GlobalKeys == {"q10", "none"}

\* The mechanism after construction: no block, no pointer set.
Constructed(fields, defaults, ions, iondata, alignment) ==
    [ pc |-> "constructed", op |-> "none", st |-> "ok",
      key |-> "", values |-> <<>>, pos_data |-> [cv |-> <<>>, weight |-> <<>>],
      field_table |-> fields, field_default_table |-> defaults,
      global_table |-> [x \in {"q10"} |-> 1],
      ion_state_table |-> ions.state, ion_index_table |-> ions.index,
      shared |-> [ion_data |-> iondata], alignment |-> alignment,
      mechanism_id_ |-> 0, width_ |-> 0, n_ion_ |-> 0,
      data_ |-> <<>>, weight_ |-> nullptr,
      field_ptr |-> [i \in DOMAIN fields |-> nullptr],
      indices_ |-> <<>>, node_index_ |-> nullptr,
      ion_index_ptr |-> [i \in DOMAIN ions.index |-> nullptr],
      ion_view |-> [i \in DOMAIN ions.state |-> ""] ]

InitMech ==
    /\ morph = <<>>
    /\ argOrder = "lhs_first"
    /\ ls = nil
    /\ out = NoCall
    /\ calls = 0
    /\ seen = {}
    /\ running = NoThreads
    /\ dom = NoDom
    /\ tree = NoTree
    /\ sim = NoSim
    /\ \E fields \in FieldTables, defaults \in FieldDefaultTables, ions \in IonTables,
          iondata \in IonData, alignment \in Alignments :
           mech = Constructed(fields, defaults, ions, iondata, alignment)

Usable == mech.pc \in {"constructed", "instantiated"}

\* instantiate(id, shared, pos_data): the shared state is an argument of
\* every call, so a later call may come with another one.
Instantiate ==
    \E pos_data \in Layouts, iondata \in IonData :
        /\ Usable
        /\ LET M == instantiate([mech EXCEPT !.shared = [ion_data |-> iondata]], 1, pos_data)
           IN  mech' = [M EXCEPT !.pc = IF M.st = "ok" THEN "instantiated" ELSE "failed",
                                 !.op = "instantiate", !.key = "", !.values = <<>>,
                                 !.pos_data = pos_data]
        /\ UNCHANGED <<morph, argOrder, ls, out, calls, seen, running, dom, tree, sim>>

SetParameter ==
    \E key \in ParameterKeys, values \in ParameterValues :
        /\ Usable
        /\ mech' = [set_parameter(mech, key, values) EXCEPT
                        !.op = "set_parameter", !.key = key, !.values = values]
        /\ UNCHANGED <<morph, argOrder, ls, out, calls, seen, running, dom, tree, sim>>

SetGlobal ==
    \E key \in GlobalKeys, value \in {1, 2} :
        /\ Usable
        /\ mech' = [set_global(mech, key, value) EXCEPT
                        !.op = "set_global", !.key = key, !.values = <<value>>]
        /\ UNCHANGED <<morph, argOrder, ls, out, calls, seen, running, dom, tree, sim>>

NextMech == Instantiate \/ SetParameter \/ SetGlobal

SpecMech == InitMech /\ [][NextMech]_vars

-----------------------------------------------------------------------------
(* Sessions of on_components: one constructor call and its resolution.     *)

ComponentCablePool ==
    { Cable(0, 0, 120), Cable(0, 0, PosOne), Cable(0, 168, PosOne), Cable(0, 120, 120),
      Cable(0, PosOne, PosOne), Cable(1, 0, 120), Cable(1, 0, PosOne), Cable(2, 0, PosOne) }

ComponentRegions ==
    {CableRegion(C) : C \in {D \in SUBSET ComponentCablePool : Cardinality(D) <= MaxCables}}
    \cup {NamedRegion("all")}

ComponentPositions == {0, 60, 120, PosOne}

OnComponentsOfRegion ==
    \E p \in ComponentPositions, r \in ComponentRegions :
        Fresh /\ Construct(on_components(p, r))

NextComponents == OnComponentsOfRegion \/ Thingify

SpecComponents == InitRestrict /\ [][NextComponents]_vars

-----------------------------------------------------------------------------
(* Integration domains.  A recipe gives the gap junctions as a set of       *)
(* unordered pairs of gids; fvm_intdom(rec, gids, cell_to_intdom) numbers   *)
(* the cells of the gid list and returns the number of domains.            *)

\* recipe::gap_junctions_on(gid): the peers of the junctions on gid.
gap_junctions_on(gj, gid) == {peer \in UNION gj : {gid, peer} \in gj /\ peer # gid}

\* The cells found from gid by direct junctions only.
Reached_DirectOnly(gj, visited) ==
    visited \cup UNION {gap_junctions_on(gj, g) : g \in visited}

RECURSIVE Reached(_, _)
\* The cells that the queue of one domain visits, starting from visited.
Reached(gj, visited) ==
    LET more == visited \cup UNION {gap_junctions_on(gj, g) : g \in visited}
    IN  IF more = visited THEN visited ELSE Reached(gj, more)

\* The loop over the gid list numbered by the position of the first cell.
NumberDomains_ByPosition(gj, gids, i, D) ==
    LET RECURSIVE Go(_, _)
        Go(k, E) ==
            IF k > Len(gids) THEN E
            ELSE IF E.cell_to_intdom[k] # nullptr THEN Go(k + 1, E)
            ELSE LET members == Reached(gj, {gids[k]})
                 IN  Go(k + 1,
                        [cell_to_intdom |->
                             [n \in DOMAIN gids |->
                                 IF gids[n] \in members THEN k - 1 ELSE E.cell_to_intdom[n]],
                         num |-> E.num + 1])
    IN  Go(i, D)

RECURSIVE NumberDomains(_, _, _, _)
\* The loop over the gid list from position i on: a cell not visited yet
\* starts the next domain, which takes every cell reached from it.
NumberDomains(gj, gids, i, D) ==
    IF i > Len(gids) THEN D
    ELSE IF D.cell_to_intdom[i] # nullptr THEN NumberDomains(gj, gids, i + 1, D)
    ELSE LET members == Reached(gj, {gids[i]})
             D1 == [cell_to_intdom |->
                        [n \in DOMAIN gids |->
                            IF gids[n] \in members THEN D.num ELSE D.cell_to_intdom[n]],
                    num |-> D.num + 1]
         IN  NumberDomains(gj, gids, i + 1, D1)

\* fvm_intdom(rec, gids, cell_to_intdom): the vector written and the count
\* returned.
fvm_intdom(gj, gids) ==
    NumberDomains(gj, gids, 1, [cell_to_intdom |-> [n \in DOMAIN gids |-> nullptr], num |-> 0])

\* The gids of the recipes and the gid lists of the cell groups.
Gids == {0, 2, 3, 7}

MaxGids == 4

Recipes == SUBSET {e \in SUBSET Gids : Cardinality(e) = 2}

RECURSIVE ListsOf(_, _)
\* The lists of at most n distinct elements of S.
ListsOf(S, n) ==
    IF n = 0 THEN {<<>>}
    ELSE {<<>>} \cup
         UNION {{<<x>> \o t : t \in ListsOf(S \ {x}, n - 1)} : x \in S}

\* A gid list holds the peers of the junctions on its cells.
ClosedUnder(gj, gids) ==
    \A n \in DOMAIN gids : gap_junctions_on(gj, gids[n]) \subseteq Range(gids)

InitIntdom ==
    /\ morph = <<>>
    /\ argOrder = "lhs_first"
    /\ ls = nil
    /\ out = NoCall
    /\ calls = 0
    /\ seen = {}
    /\ running = NoThreads
    /\ mech = NoMech
    /\ tree = NoTree
    /\ sim = NoSim
    /\ \E gj \in Recipes :
           dom = [pc |-> "recipe", gj |-> gj, gids |-> <<>>,
                  cell_to_intdom |-> <<>>, num_dom |-> 0]

\* fvm_intdom called for a cell group of the recipe.
FvmIntdom ==
    \E gids \in ListsOf(Gids, MaxGids) :
        /\ dom.pc # "none"
        /\ ClosedUnder(dom.gj, gids)
        /\ LET D == fvm_intdom(dom.gj, gids)
           IN  dom' = [dom EXCEPT !.pc = "done", !.gids = gids,
                                  !.cell_to_intdom = D.cell_to_intdom, !.num_dom = D.num]
        /\ UNCHANGED <<morph, argOrder, ls, out, calls, seen, running, mech, tree, sim>>

NextIntdom == FvmIntdom

SpecIntdom == InitIntdom /\ [][NextIntdom]_vars

-----------------------------------------------------------------------------
(* Tree algorithms (nest::mc::algorithms).  A parent index is a sequence   *)
(* of node ids counted from 0: entry i + 1 of the sequence is the parent   *)
(* of node i.                                                              *)

\* algorithms::is_minimal_degree: the root is its own parent and every other
\* node has a parent of smaller index.
is_minimal_degree(c) ==
    \/ Len(c) = 0
    \/ /\ c[1] = 0
       /\ \A i \in 1..(Len(c) - 1) : c[i + 1] < i

\* algorithms::child_count: the number of children of every node; the root
\* is not counted as a child of itself.
child_count(parent_index) ==
    [n \in DOMAIN parent_index |->
        Cardinality({i \in 1..(Len(parent_index) - 1) : parent_index[i + 1] = n - 1})]

\* algorithms::has_contiguous_segments: the only child of a node follows it
\* directly.
has_contiguous_segments(parent_index) ==
    \A i \in 1..(Len(parent_index) - 1) :
        LET p == parent_index[i + 1]
        IN  child_count(parent_index)[p + 1] = 1 => p = i - 1

\* The loop of branches_fast with the children of the root taken as any
\* other node.
BranchLoop_RootAsAnyNode(parent_index, nchild, i, ids, num) ==
    LET RECURSIVE Go(_, _, _)
        Go(k, b, n) ==
            IF k >= Len(parent_index) THEN b
            ELSE LET p == parent_index[k + 1]
                 IN  IF nchild[p + 1] > 1
                     THEN Go(k + 1, Append(b, n), n + 1)
                     ELSE Go(k + 1, Append(b, b[p + 1]), n)
    IN  Go(i, ids, num)

RECURSIVE BranchLoop(_, _, _, _, _)
\* The loop of branches_fast over the nodes from i on: ids holds the branch
\* of the nodes before i, num the number of branches so far.
BranchLoop(parent_index, nchild, i, ids, num) ==
    IF i >= Len(parent_index) THEN ids
    ELSE LET p == parent_index[i + 1]
         IN  IF p = 0 \/ nchild[p + 1] > 1
             THEN BranchLoop(parent_index, nchild, i + 1, Append(ids, num), num + 1)
             ELSE BranchLoop(parent_index, nchild, i + 1, Append(ids, ids[p + 1]), num)

\* algorithms::branches_fast(parent_index): the branch id of every node.
branches_fast(parent_index) ==
    IF Len(parent_index) = 0 THEN <<>>
    ELSE BranchLoop(parent_index, child_count(parent_index), 1, <<0>>, 1)

MaxNodes == 6

RECURSIVE ParentIndexes(_)
\* The minimal-degree parent indexes of n nodes.
ParentIndexes(n) ==
    IF n = 0 THEN {<<>>}
    ELSE IF n = 1 THEN {<<0>>}
    ELSE {Append(c, p) : c \in ParentIndexes(n - 1), p \in 0..(n - 2)}

InitBranches ==
    /\ morph = <<>>
    /\ argOrder = "lhs_first"
    /\ ls = nil
    /\ out = NoCall
    /\ calls = 0
    /\ seen = {}
    /\ running = NoThreads
    /\ mech = NoMech
    /\ dom = NoDom
    /\ sim = NoSim
    /\ \E n \in 0..MaxNodes : \E c \in ParentIndexes(n) :
           tree = [pc |-> "built", parent_index |-> c, branches |-> <<>>]

\* branches_fast called for the tree.
BranchesFast ==
    /\ tree.pc = "built"
    /\ tree' = [tree EXCEPT !.pc = "done", !.branches = branches_fast(tree.parent_index)]
    /\ UNCHANGED <<morph, argOrder, ls, out, calls, seen, running, mech, dom, sim>>

NextBranches == BranchesFast

SpecBranches == InitBranches /\ [][NextBranches]_vars

-----------------------------------------------------------------------------
(* Recipes and the construction of a simulation.  A recipe holds, per gid  *)
(* counted from 0 (entry gid + 1 of each sequence), the cell description,  *)
(* the declared numbers of sources and targets, and the connections, gap   *)
(* junctions and event generators that end on the cell.                    *)

\* custom_cell(num_detectors, num_synapses, num_gj): the items placed on the
\* cell.
custom_cell(num_detectors, num_synapses, num_gj) ==
    [detectors |-> num_detectors, synapses |-> num_synapses, gj_sites |-> num_gj]

\* cell_connection{{gid, lid}, dest, weight, delay}: source and target lid.
cell_connection(gid, lid, dest) == [source |-> [gid |-> gid, index |-> lid], dest |-> dest]

\* gap_junction_connection{{gid, lid}, local, ggap}: peer site and local lid.
gap_junction_connection(gid, lid, local) ==
    [peer |-> [gid |-> gid, index |-> lid], local |-> local]

\* custom_recipe(cells, num_sources, num_targets, conns, gjs, gens); an event
\* generator is the sequence of the target lids of its events.
custom_recipe(cells, num_sources, num_targets, conns, gjs, gens) ==
    [cells |-> cells, num_sources |-> num_sources, num_targets |-> num_targets,
     connections |-> conns, gap_junctions |-> gjs, event_generators |-> gens]

num_cells(rec) == Len(rec.cells)

RecGids(rec) == 0..(num_cells(rec) - 1)

\* The items of the per-cell lists decl, each paired with the gid it is on.
ItemsOn(rec, decl) ==
    UNION {{<<gid, decl[gid + 1][k]>> : k \in DOMAIN decl[gid + 1]} : gid \in RecGids(rec)}

\* Only a declared number of sources below the detectors placed is an error.
SourceMismatch_OnlyMissing(rec) ==
    {gid \in RecGids(rec) : rec.num_sources[gid + 1] < rec.cells[gid + 1].detectors}

\* bad_source_description: num_sources(gid) differs from the detectors placed.
SourceMismatch(rec) ==
    {gid \in RecGids(rec) : rec.num_sources[gid + 1] # rec.cells[gid + 1].detectors}

\* bad_target_description: num_targets(gid) differs from the synapses placed.
TargetMismatch(rec) ==
    {gid \in RecGids(rec) : rec.num_targets[gid + 1] # rec.cells[gid + 1].synapses}

\* bad_connection_source_gid: the source gid is not a cell of the recipe.
BadSourceGid(rec) ==
    {c \in ItemsOn(rec, rec.connections) : c[2].source.gid >= num_cells(rec)}

\* The source lid may equal the number of sources of the source cell.
BadSourceLid_OffByOne(rec) ==
    {c \in ItemsOn(rec, rec.connections) :
        /\ c[2].source.gid < num_cells(rec)
        /\ c[2].source.index > rec.num_sources[c[2].source.gid + 1]}

\* bad_connection_source_lid: the source lid is not a source of its cell.
BadSourceLid(rec) ==
    {c \in ItemsOn(rec, rec.connections) :
        /\ c[2].source.gid < num_cells(rec)
        /\ c[2].source.index >= rec.num_sources[c[2].source.gid + 1]}

\* bad_connection_target_lid: the target lid is not a target of the cell.
BadTargetLid(rec) ==
    {c \in ItemsOn(rec, rec.connections) : c[2].dest >= rec.num_targets[c[1] + 1]}

\* bad_gj_connection_lid: the local or the peer lid is not a gap junction
\* site of its cell.
BadGjLid(rec) ==
    {g \in ItemsOn(rec, rec.gap_junctions) :
        \/ g[2].local >= rec.cells[g[1] + 1].gj_sites
        \/ /\ g[2].peer.gid < num_cells(rec)
           /\ g[2].peer.index >= rec.cells[g[2].peer.gid + 1].gj_sites}

\* bad_event_generator_target_lid: an event of a generator on the cell has a
\* target lid that is not a target of the cell.
BadGeneratorLid(rec) ==
    {g \in ItemsOn(rec, rec.event_generators) :
        \E k \in DOMAIN g[2] : g[2][k] >= rec.num_targets[g[1] + 1]}

\* The exceptions that the construction of a simulation can raise for rec;
\* the order of the tests among several defects is not fixed here.
RecipeErrors(rec) ==
    {e \in {"bad_source_description", "bad_target_description",
            "bad_connection_source_gid", "bad_connection_source_lid",
            "bad_connection_target_lid", "bad_gj_connection_lid",
            "bad_event_generator_target_lid"} :
        \/ e = "bad_source_description" /\ SourceMismatch(rec) # {}
        \/ e = "bad_target_description" /\ TargetMismatch(rec) # {}
        \/ e = "bad_connection_source_gid" /\ BadSourceGid(rec) # {}
        \/ e = "bad_connection_source_lid" /\ BadSourceLid(rec) # {}
        \/ e = "bad_connection_target_lid" /\ BadTargetLid(rec) # {}
        \/ e = "bad_gj_connection_lid" /\ BadGjLid(rec) # {}
        \/ e = "bad_event_generator_target_lid" /\ BadGeneratorLid(rec) # {}}

\* simulation(rec, decomp, ctx): the outcomes of the constructor.
simulation(rec) == IF RecipeErrors(rec) = {} THEN {"ok"} ELSE RecipeErrors(rec)

\* The cell lists of the recipes: those of the unit tests.
CellLists ==
    { <<custom_cell(1, 0, 0)>>,
      <<custom_cell(0, 2, 0)>>,
      <<custom_cell(1, 2, 0), custom_cell(2, 1, 0)>>,
      <<custom_cell(0, 0, 3), custom_cell(0, 0, 3)>> }

\* The lids and source gids named by the declarations of the recipes.
Lids == {0, 1, 3}

SourceGids == {0, 1, 2}

MaxDecl == 1

\* The number of declarations of the recipe.
NumDecl(rec) ==
    Cardinality(ItemsOn(rec, rec.connections)) + Cardinality(ItemsOn(rec, rec.gap_junctions))
        + Cardinality(ItemsOn(rec, rec.event_generators))

InitRecipe ==
    /\ morph = <<>>
    /\ argOrder = "lhs_first"
    /\ ls = nil
    /\ out = NoCall
    /\ calls = 0
    /\ seen = {}
    /\ running = NoThreads
    /\ mech = NoMech
    /\ dom = NoDom
    /\ tree = NoTree
    /\ \E cells \in CellLists :
       \E over \in [DOMAIN cells -> {0, 1}], more \in [DOMAIN cells -> {0, 1}] :
           sim = [pc |-> "recipe",
                  rec |-> custom_recipe(cells,
                              [n \in DOMAIN cells |-> cells[n].detectors + over[n]],
                              [n \in DOMAIN cells |-> cells[n].synapses + more[n]],
                              [n \in DOMAIN cells |-> <<>>],
                              [n \in DOMAIN cells |-> <<>>],
                              [n \in DOMAIN cells |-> <<>>]),
                  result |-> "none"]

\* The recipe declares one more connection on a cell.
DeclareConnection ==
    /\ sim.pc = "recipe"
    /\ NumDecl(sim.rec) < MaxDecl
    /\ \E gid \in RecGids(sim.rec), src \in SourceGids, lid \in Lids, dest \in Lids :
           sim' = [sim EXCEPT !.rec.connections[gid + 1] =
                                  Append(@, cell_connection(src, lid, dest))]
    /\ UNCHANGED <<morph, argOrder, ls, out, calls, seen, running, mech, dom, tree>>

\* The recipe declares one more gap junction on a cell.
DeclareGapJunction ==
    /\ sim.pc = "recipe"
    /\ NumDecl(sim.rec) < MaxDecl
    /\ \E gid \in RecGids(sim.rec), peer \in RecGids(sim.rec), lid \in Lids, local \in Lids :
           sim' = [sim EXCEPT !.rec.gap_junctions[gid + 1] =
                                  Append(@, gap_junction_connection(peer, lid, local))]
    /\ UNCHANGED <<morph, argOrder, ls, out, calls, seen, running, mech, dom, tree>>

\* The recipe declares one more event generator on a cell.
DeclareGenerator ==
    /\ sim.pc = "recipe"
    /\ NumDecl(sim.rec) < MaxDecl
    /\ \E gid \in RecGids(sim.rec), lid \in Lids, other \in Lids :
           sim' = [sim EXCEPT !.rec.event_generators[gid + 1] =
                                  Append(@, IF other = lid THEN <<lid>> ELSE <<lid, other>>)]
    /\ UNCHANGED <<morph, argOrder, ls, out, calls, seen, running, mech, dom, tree>>

\* simulation(rec, decomp, ctx) is constructed or throws.
ConstructSimulation ==
    /\ sim.pc = "recipe"
    /\ \E r \in simulation(sim.rec) :
           sim' = [sim EXCEPT !.pc = IF r = "ok" THEN "constructed" ELSE "failed",
                              !.result = r]
    /\ UNCHANGED <<morph, argOrder, ls, out, calls, seen, running, mech, dom, tree>>

NextRecipe ==
    \/ DeclareConnection
    \/ DeclareGapJunction
    \/ DeclareGenerator
    \/ ConstructSimulation

SpecRecipe == InitRecipe /\ [][NextRecipe]_vars

-----------------------------------------------------------------------------
(* A simulation of the chain of LIF cells of the unit test, run in stages. *)
(* Times are whole milliseconds.  The simulation advances in epochs of     *)
(* half the minimal connection delay; the spikes of an epoch are exchanged *)
(* while the next epoch is integrated, and the events they cause wait in   *)
(* pending_events until they are merged into the event lanes of an epoch.  *)

\* lif_chain rec(n, delay, explicit_schedule(trigger_times)).
chain_n == 5

chain_delay == 10

trigger_times == {1, 2, 3}

\* tfinal = trigger_times.back() + delay*(n/2 + 0.1), with n/2 the integer
\* quotient.
chain_tfinal == 3 + (chain_delay * (10 * (chain_n \div 2) + 1)) \div 10

ChainCells == 0..(chain_n - 1)

\* lif_chain::connections_on(target): one connection from the cell before.
chain_connections_on(target) == IF target # 0 THEN {target - 1} ELSE {}

\* lif_chain::event_generators(target): the triggers, on cell 0 only.
chain_event_generators(triggers, target) == IF target # 0 THEN {} ELSE triggers

\* The interval of an epoch: half the minimal delay of the connections.
t_interval == chain_delay \div 2

\* spike_lt of the test, and a list of spikes sorted by it.
spike_lt(a, b) == a.time < b.time \/ (a.time = b.time /\ a.source < b.source)

RECURSIVE SortSpikes(_)
SortSpikes(S) ==
    IF S = {} THEN <<>>
    ELSE LET a == CHOOSE x \in S : \A y \in S \ {x} : spike_lt(x, y)
         IN  <<a>> \o SortSpikes(S \ {a})

\* The simulation after reset(): time 0, no event and no spike held, as
\* after construction.
ResetState(triggers) ==
    [pc |-> "reset", triggers |-> triggers, t |-> 0,
     lanes |-> [c \in ChainCells |-> {}],
     pending_events |-> [c \in ChainCells |-> {}],
     local_spikes |-> {}, collected |-> <<>>, run_to |-> 0, returned |-> 0, stages |-> 0,
     shortest |-> chain_tfinal]

\* merge_cell_events keeping only the events of the epoch.
merge_cell_events_EpochOnly(t0, t1, old_events, pending, generated) ==
    {e \in old_events \cup pending \cup generated : t0 <= e /\ e < t1}

\* merge_cell_events(t0, t1, old_events, pending, generators, new_events):
\* the lane of a cell for the epoch [t0, t1): the events of the old lane not
\* delivered yet, the pending events, and the generated events of the epoch.
merge_cell_events(t0, t1, old_events, pending, generated) ==
    {e \in old_events : e >= t0} \cup pending
        \cup {e \in generated : t0 <= e /\ e < t1}

\* enqueue(epoch): the lanes of the epoch are merged, pending_events cleared.
enqueue(E, t0, t1) ==
    [E EXCEPT !.lanes = [c \in ChainCells |->
                            merge_cell_events(t0, t1, E.lanes[c], E.pending_events[c],
                                              chain_event_generators(E.triggers, c))],
              !.pending_events = [c \in ChainCells |-> {}]]

\* update(epoch): every cell is advanced to t1; the hair-trigger cell spikes
\* at the time of each event delivered to it.
update(E, t0, t1) ==
    [E EXCEPT !.local_spikes =
        UNION {{[source |-> c, time |-> e] : e \in {x \in E.lanes[c] : x < t1}} :
                  c \in ChainCells}]

\* exchange(epoch): the spikes of the epoch go to the global callback and
\* make the events of the connections from their sources.
exchange(E, spikes) ==
    [E EXCEPT !.collected = @ \o SortSpikes(spikes),
              !.pending_events =
                  [c \in ChainCells |->
                      @[c] \cup {s.time + chain_delay :
                                    s \in {x \in spikes : x.source \in chain_connections_on(c)}}]]

RECURSIVE RunEpochs(_, _, _, _, _)
\* The loop of run: the epoch [t0, t1) has been integrated and its spikes
\* are in E.local_spikes; prev holds the spikes of the epoch before, not
\* exchanged yet; the lanes of the epoch after [t0, t1) are merged before
\* the spikes of [t0, t1) are exchanged.
RunEpochs(E, prev, t0, t1, tfinal) ==
    LET n1 == IF t1 + t_interval < tfinal THEN t1 + t_interval ELSE tfinal
    IN  IF t1 >= tfinal
        THEN LET E1 == exchange(E, prev)
             IN  [exchange(E1, E.local_spikes) EXCEPT !.t = t1, !.local_spikes = {}]
        ELSE LET E1 == exchange(E, prev)
                 cur == E.local_spikes
                 E2 == enqueue(E1, t1, n1)
                 E3 == update(E2, t1, n1)
             IN  RunEpochs(E3, cur, t1, n1, tfinal)

\* simulation::run(tfinal, dt): the state after the call; the time reached
\* is returned.
run(E, tfinal) ==
    IF tfinal <= E.t THEN E
    ELSE LET t1 == IF E.t + t_interval < tfinal THEN E.t + t_interval ELSE tfinal
             E1 == update(enqueue(E, E.t, t1), E.t, t1)
         IN  RunEpochs(E1, {}, E.t, t1, tfinal)

TriggerSets == SUBSET trigger_times

InitStages ==
    /\ morph = <<>>
    /\ argOrder = "lhs_first"
    /\ ls = nil
    /\ out = NoCall
    /\ calls = 0
    /\ seen = {}
    /\ running = NoThreads
    /\ mech = NoMech
    /\ dom = NoDom
    /\ tree = NoTree
    /\ \E triggers \in TriggerSets :
           sim = [ResetState(triggers) EXCEPT !.pc = "constructed"]

\* t = sim.run(run_to, dt) with the next run_to of the test's loop.
RunStage ==
    /\ sim.pc \in {"constructed", "reset", "run"}
    /\ sim.t < chain_tfinal
    /\ \E run_to \in (sim.t + 1)..chain_tfinal :
           LET E == run(sim, run_to)
           IN  sim' = [E EXCEPT !.pc = "run", !.run_to = run_to, !.returned = E.t, !.stages = sim.stages + 1,
                                !.shortest = IF run_to - sim.t < @ THEN run_to - sim.t ELSE @]
    /\ UNCHANGED <<morph, argOrder, ls, out, calls, seen, running, mech, dom, tree>>

\* collected.clear(); sim.reset().
ResetSimulation ==
    /\ sim.pc = "run"
    /\ sim' = ResetState(sim.triggers)
    /\ UNCHANGED <<morph, argOrder, ls, out, calls, seen, running, mech, dom, tree>>

NextStages == RunStage \/ ResetSimulation

SpecStages == InitStages /\ [][NextStages]_vars

-----------------------------------------------------------------------------
(* Properties of restrict.                                                 *)

Thingified == out.op = "thingify"

\* The location lies on one of the cables.
OnSomeCable(cables, l) ==
    \E i \in DOMAIN cables :
        /\ cables[i].branch = l.branch
        /\ cables[i].prox_pos <= l.pos
        /\ l.pos <= cables[i].dist_pos

\* The outcome of resolving e alone; e holds no uniform locset.
Resolved(e) == thingify(e, morph, CHOOSE j \in Junk : j.crash)

\* C1: thingify(restrict(ls, reg)) returns exactly the points of thingify(ls),
\* in their order and multiplicity, that lie on a cable of the resolved region
\* (same branch, prox_pos <= pos <= dist_pos).  Restricting {(0, 0.7)} to
\* {cable 0 0-0.5} gives the empty list, and to {cable 0 0-1} gives {(0, 0.7)},
\* on a morphology that has branch 0.
C1_RestrictKeepsExactlyPointsOnCables ==
    /\ (Thingified /\ ls.tag = "lrestrict" /\ out.st = "ok") =>
          LET cables == thingify_region(ls.reg, morph).val
              points == Resolved(ls.ls).val
          IN  out.val = SelectSeq(points, LAMBDA l : OnSomeCable(cables, l))
    /\ (Thingified /\ 0 \in Branches(morph) /\ ls = restrict(location_list(<<Loc(0, 168)>>),
                                    CableRegion({Cable(0, 0, 120)}))) =>
          out = Result("thingify", Ok(<<>>))
    /\ (Thingified /\ 0 \in Branches(morph) /\ ls = restrict(location_list(<<Loc(0, 168)>>),
                                    CableRegion({Cable(0, 0, PosOne)}))) =>
          out = Result("thingify", Ok(<<Loc(0, 168)>>))

\* A list of two points restricted to a region of two cables of one branch:
\* the point on the second cable is kept, the point proximal to both is dropped.
C1_Witness ==
    /\ Thingified
    /\ ls = restrict(location_list(<<Loc(0, 168), Loc(0, 0)>>),
                     CableRegion({Cable(0, 120, 120), Cable(0, 168, PosOne)}))
    /\ out.st = "ok"
    /\ out.val = <<Loc(0, 168)>>

\* C4: restrict is idempotent: resolving restrict(restrict(ls, reg), reg)
\* gives the outcome of resolving restrict(ls, reg), also for unsorted lists
\* and lists with duplicates.
C4_RestrictIdempotent ==
    (Thingified /\ ls.tag = "lrestrict" /\ ls.ls.tag = "lrestrict" /\ ls.reg = ls.ls.reg)
        => out = Result("thingify", Resolved(ls.ls))

\* A twice restricted unsorted list of which the first point is outside the
\* region.
C4_Witness ==
    /\ Thingified
    /\ ls.tag = "lrestrict" /\ ls.ls.tag = "lrestrict" /\ ls.reg = ls.ls.reg
    /\ ls.ls.ls = location_list(<<Loc(1, PosOne), Loc(0, 168)>>)
    /\ out.st = "ok"
    /\ out.val = <<Loc(0, 168)>>

-----------------------------------------------------------------------------
(* Properties of the reductions and of the boundary.                       *)

\* C2: no point of thingify(most_distal(reg)) or thingify(most_proximal(reg))
\* is an ancestor of another point of the same result, where ancestry follows
\* the branch-parent links and the position within a branch.
C2_ExtremaPairwiseIncomparable ==
    (Thingified /\ ls.tag \in {"most_distal", "most_proximal"} /\ out.st = "ok") =>
        \A i \in DOMAIN out.val, k \in DOMAIN out.val :
            i # k => ~LocAncestor(morph, out.val[i], out.val[k])

\* most_distal of the whole of a morphology with two terminal branches: the
\* end of the parent branch is dropped, the two terminal ends stay.
C2_Witness ==
    /\ Thingified
    /\ ls = most_distal(NamedRegion("all"))
    /\ morph = <<mnpos, 0, 0>>
    /\ out.st = "ok"
    /\ out.val = <<Loc(1, PosOne), Loc(2, PosOne)>>

\* C25: thingify(most_distal(R)) holds exactly the maximal elements of the
\* distal ends of the cables of thingify(R): every point returned is such an
\* end and every such end is returned or is a proper ancestor of a point
\* returned; thingify(most_proximal(R)) holds exactly the minimal elements of
\* the proximal ends; the result is empty only when R resolves to no cable.
C25_ExtremaAreMaximalCandidates ==
    (Thingified /\ ls.tag \in {"most_distal", "most_proximal"} /\ out.st = "ok") =>
        LET cables == thingify_region(ls.reg, morph).val
            distal == ls.tag = "most_distal"
            candidates == {IF distal THEN dist_loc(cables[i]) ELSE prox_loc(cables[i]) :
                              i \in DOMAIN cables}
            returned == Range(out.val)
        IN  /\ returned \subseteq candidates
            /\ \A c \in candidates :
                   \/ c \in returned
                   \/ \E x \in returned :
                          IF distal THEN LocAncestor(morph, c, x) ELSE LocAncestor(morph, x, c)
            /\ \A x \in returned, y \in candidates :
                   IF distal THEN ~LocAncestor(morph, x, y) ELSE ~LocAncestor(morph, y, x)
            /\ (out.val = <<>>) <=> (cables = <<>>)

\* most_proximal of the end of the parent branch and a whole child branch:
\* the start of the child is dropped.
C25_Witness ==
    /\ Thingified
    /\ ls = most_proximal(CableRegion({Cable(0, 168, PosOne), Cable(1, 0, PosOne)}))
    /\ morph = <<mnpos, 0, 0>>
    /\ out.st = "ok"
    /\ out.val = <<Loc(0, 168)>>

\* C3: thingify(boundary(reg)) is sorted and holds no duplicates, also when
\* several components contribute the same point.
C3_BoundarySortedNoDuplicates ==
    (Thingified /\ ls.tag = "boundary" /\ out.st = "ok") =>
        IsSorted(out.val) /\ NoDuplicates(out.val)

\* A boundary whose accumulated list holds a point more than once.
C3_Witness ==
    /\ Thingified
    /\ ls.tag = "boundary"
    /\ out.st = "ok"
    /\ LET L == BoundaryOf(morph, components(morph, thingify_region(ls.reg, morph).val), <<>>)
       IN  ~NoDuplicates(L) /\ Len(out.val) < Len(L) /\ Len(out.val) >= 3

-----------------------------------------------------------------------------
(* Properties of the errors.                                               *)

\* C7: a missing branch or name is an error of resolution, not of
\* construction: location(b, pos) with a valid pos and named(n) are
\* constructed for any b and n; thingify of a location or of a location list
\* fails with no_such_branch exactly when a branch id is >= num_branches, and
\* otherwise returns the location, or the list unchanged.
C7_MissingReferenceFailsAtResolution ==
    /\ \A b \in LitBranches, pos \in LitPositions :
           test_invariants(Loc(b, pos)) => location(b, pos) = Ok(location_(Loc(b, pos)))
    /\ out.op = "construct" => out.st \notin {"no_such_branch", "unbound_name"}
    /\ (out.op = "construct" /\ ls.tag = "named") => out.st = "ok"
    /\ (Thingified /\ ls.tag = "location") =>
           out = Result("thingify",
                        IF ls.loc.branch >= num_branches(morph)
                        THEN Fail("no_such_branch") ELSE Ok(<<ls.loc>>))
    /\ (Thingified /\ ls.tag = "location_list") =>
           out = Result("thingify",
                        IF \E i \in DOMAIN ls.ll : ls.ll[i].branch >= num_branches(morph)
                        THEN Fail("no_such_branch") ELSE Ok(ls.ll))

\* A list naming the branch one past the last fails at resolution.
C7_Witness ==
    /\ Thingified
    /\ ls.tag = "location_list"
    /\ \E i \in DOMAIN ls.ll : ls.ll[i].branch = num_branches(morph)
    /\ out.st = "no_such_branch"

\* C8: a position outside [0, 1] is rejected when the literal is constructed,
\* for a single location and for a location list: no constructed literal
\* holds such a position.
C8_InvalidPositionRejectedAtConstruction ==
    /\ ls.tag = "location" => test_invariants(ls.loc)
    /\ ls.tag = "location_list" => \A i \in DOMAIN ls.ll : test_invariants(ls.ll[i])

\* The composite locsets, and their sub-expressions as resolved under j.
IsComposite(e) ==
    e.tag \in {"most_distal", "most_proximal", "boundary", "cboundary", "on_components",
               "uniform", "land", "lor", "lsum", "lsup", "lrestrict"}

SubOutcomes(e, j) ==
    CASE e.tag \in {"land", "lor", "lsum"} ->
             {thingify(e.lhs, morph, j), thingify(e.rhs, morph, j)}
      [] e.tag = "lsup" -> {thingify(e.arg, morph, j)}
      [] e.tag = "lrestrict" -> {thingify_region(e.reg, morph), thingify(e.ls, morph, j)}
      [] OTHER -> {thingify_region(e.reg, morph)}

RelposOutOfRange(e) == e.tag = "on_components" /\ (e.relpos < 0 \/ e.relpos > PosOne)

\* A composite of which a sub-expression fails with no_such_branch.
SubFailsNoSuchBranch(j) ==
    /\ Thingified
    /\ IsComposite(ls)
    /\ ~RelposOutOfRange(ls)
    /\ out = Result("thingify", thingify(ls, morph, j))
    /\ \E o \in SubOutcomes(ls, j) : o.st = "no_such_branch"

\* C9: a branch out of range never gives a silent result: when the
\* resolution of a sub-expression fails with no_such_branch, thingify of the
\* composite returns no list and fails with the error of one of its failing
\* sub-expressions; on_components with relpos outside [0, 1] is the exception.
C9_NoSuchBranchNeverSilent ==
    \A j \in Junk :
        SubFailsNoSuchBranch(j) =>
            /\ out.st # "ok"
            /\ \E o \in SubOutcomes(ls, j) : o.st = out.st

\* C9 as stated: the composite fails with no_such_branch.
C9_FailsWithNoSuchBranch ==
    \A j \in Junk : SubFailsNoSuchBranch(j) => out.st = "no_such_branch"

\* intersect of the empty locset and a location on a missing branch.
C9_Witness ==
    /\ Thingified
    /\ ls = intersect(nil, location_(Loc(BadBranch, 0)))
    /\ out.st = "no_such_branch"

\* C10: on_components(relpos, reg) with relpos < 0 or relpos > 1 resolves to
\* the empty list without resolving reg, whose errors are not raised.
C10_OnComponentsOutOfRangeEmpty ==
    (Thingified /\ RelposOutOfRange(ls)) => out = Result("thingify", Ok(<<>>))

\* relpos above 1 with a region on a missing branch.
C10_Witness ==
    /\ Thingified
    /\ ls = on_components(PosOne + 120, BadRegion)
    /\ thingify_region(BadRegion, morph).st = "no_such_branch"
    /\ out = Result("thingify", Ok(<<>>))

\* C28: every point of the list returned by a successful thingify is a valid
\* location of the provider's morphology: its branch is below num_branches()
\* and its position lies in [0, 1]; for every operator, root on a morphology
\* without branch, on_branches(p) for every p the constructor accepts and
\* location lists included.
C28_ResolvedPointsAreValid ==
    (Thingified /\ out.st = "ok") =>
        \A i \in DOMAIN out.val :
            /\ out.val[i].branch \in Branches(morph)
            /\ 0 <= out.val[i].pos /\ out.val[i].pos <= PosOne

\* C29: for every region whose resolution succeeds, also one without cable
\* or with cables of length zero, and every left <= right,
\* thingify(uniform(reg, left, right, seed)) returns right-left+1 points, each
\* on a cable of the region, in non-decreasing order of branch and position;
\* the cable index never runs past the last cable (no read past the end).
C29_UniformPointsOnRegion ==
    (/\ Thingified
     /\ ls.tag = "uniform"
     /\ thingify_region(ls.reg, morph).st = "ok") =>
        /\ out.st = "ok"
        /\ Len(out.val) = ls.right - ls.left + 1
        /\ \A i \in DOMAIN out.val :
               /\ out.val[i].pos # NaN
               /\ OnSomeCable(thingify_region(ls.reg, morph).val, out.val[i])
        /\ IsSorted(out.val)

-----------------------------------------------------------------------------
(* Properties of on_components within the range of relpos.                 *)

\* The components of the region of the expression of the state.
ComponentsHere == components(morph, thingify_region(ls.reg, morph).val)

ProxOf(comp) == prox_loc(comp[1])

\* The distance from the proximal point of comp to x.
DistanceIn(comp, x) == integrate_length(morph, ProxOf(comp), x)

\* The largest distance of a distal end of comp from its proximal point.
DiameterOf(comp) ==
    CHOOSE D \in {DistanceIn(comp, dist_loc(comp[i])) : i \in DOMAIN comp} :
        \A i \in DOMAIN comp : DistanceIn(comp, dist_loc(comp[i])) <= D

RECURSIVE Flatten(_)
\* The lists of a list of lists, one after the other.
Flatten(ss) == IF ss = <<>> THEN <<>> ELSE Head(ss) \o Flatten(Tail(ss))

\* The lists PerComp(comp) of the components, one after the other.
Gather(comps, PerComp(_)) == Flatten([k \in DOMAIN comps |-> PerComp(comps[k])])

\* The points of comp at distance d from its proximal point, one on each
\* cable that reaches from a distance <= d to a distance >= d.
PointsAtDistance(comp, d) ==
    {x \in {Loc(comp[i].branch, pos) : i \in DOMAIN comp, pos \in 0..PosOne} :
        \E i \in DOMAIN comp :
            /\ x.branch = comp[i].branch
            /\ comp[i].prox_pos <= x.pos /\ x.pos <= comp[i].dist_pos
            /\ DistanceIn(comp, x) = d}

FarthestEnds(comp) ==
    {dist_loc(comp[i]) : i \in {k \in DOMAIN comp :
                                    DistanceIn(comp, dist_loc(comp[k])) = DiameterOf(comp)}}

-----------------------------------------------------------------------------
(* Properties of uniform.                                                  *)

\* The number of occurrences of each location of a list.
BagOfSeq(L) == [v \in Range(L) |-> Cardinality({i \in DOMAIN L : L[i] = v})]

\* C5: uniform is deterministic: two evaluations of uniform(reg, left, right,
\* seed) on the same morphology return the same list, whatever other calls of
\* thingify were made before or in between.
C5_UniformDeterministic ==
    \A x \in seen, y \in seen : x.e = y.e => x.o = y.o

\* C6: uniform is partitionable by draw range: for a <= b < c the points of
\* uniform(reg, a, b, seed) and of uniform(reg, b+1, c, seed) together are, as
\* a multiset, the points of uniform(reg, a, c, seed).
C6_UniformPartitionable ==
    \A x \in seen, y \in seen, z \in seen :
        ( /\ x.e.left = z.e.left
          /\ y.e.left = x.e.right + 1
          /\ y.e.right = z.e.right
          /\ x.o.st = "ok" /\ y.o.st = "ok" /\ z.o.st = "ok" )
        => BagOfSeq(sum(x.o.val, y.o.val)) = BagOfSeq(z.o.val)

-----------------------------------------------------------------------------
(* Properties of on_branches and of the binary constructors.               *)

\* C11: thingify(on_branches(p)) returns exactly num_branches() points, the
\* i-th being (branch i, p) for i = 0..n-1 in increasing order of the branch
\* id; on a morphology without branches the result is empty.
C11_OnBranchesOnePointPerBranch ==
    (Thingified /\ ls.tag = "on_branches") =>
        /\ out.st = "ok"
        /\ Len(out.val) = num_branches(morph)
        /\ \A i \in 1..num_branches(morph) : out.val[i] = Loc(i - 1, ls.pos)
        /\ num_branches(morph) = 0 => out.val = <<>>

\* on_branches(0.5) on a morphology of three branches.
C11_Witness ==
    /\ Thingified
    /\ ls = on_branches(120)
    /\ num_branches(morph) = 3
    /\ out.val = <<Loc(0, 120), Loc(1, 120), Loc(2, 120)>>

\* The outcomes of the two operands of a binary locset under j, when both
\* resolve and out is the outcome of the whole under j.
BothResolve(j) ==
    /\ Thingified
    /\ out = Result("thingify", thingify(ls, morph, j))
    /\ thingify(ls.lhs, morph, j).st = "ok"
    /\ thingify(ls.rhs, morph, j).st = "ok"

\* C12: every point of thingify(intersect(A, B)) occurs in thingify(A) and in
\* thingify(B); every point of thingify(A) and of thingify(B) occurs in
\* thingify(join(A, B)), which holds no point twice.
C12_IntersectWithinJoinCovers ==
    \A j \in Junk :
        /\ (ls.tag = "land" /\ BothResolve(j)) =>
               /\ out.st = "ok"
               /\ Range(out.val) \subseteq Range(thingify(ls.lhs, morph, j).val)
               /\ Range(out.val) \subseteq Range(thingify(ls.rhs, morph, j).val)
        /\ (ls.tag = "lor" /\ BothResolve(j)) =>
               /\ out.st = "ok"
               /\ Range(thingify(ls.lhs, morph, j).val) \subseteq Range(out.val)
               /\ Range(thingify(ls.rhs, morph, j).val) \subseteq Range(out.val)
               /\ NoDuplicates(out.val)

\* join of two lists that share a point, one of them holding it twice.
C12_Witness ==
    /\ Thingified
    /\ ls = join_(location_list(<<Loc(0, 168), Loc(0, 168)>>),
                  location_list(<<Loc(0, 168), Loc(0, 0)>>))
    /\ out.st = "ok"
    /\ out.val = <<Loc(0, 0), Loc(0, 168)>>

\* C13: thingify(sum(A, B)) has length len(thingify(A)) + len(thingify(B)):
\* points in both operands, or repeated in one, keep their full multiplicity.
C13_SumKeepsMultiplicity ==
    \A j \in Junk :
        (ls.tag = "lsum" /\ BothResolve(j)) =>
            LET A == thingify(ls.lhs, morph, j).val
                B == thingify(ls.rhs, morph, j).val
            IN  /\ out.st = "ok"
                /\ Len(out.val) = Len(A) + Len(B)
                /\ \A v \in Range(A) \cup Range(B) \cup Range(out.val) :
                       Cardinality({i \in DOMAIN out.val : out.val[i] = v})
                           = Cardinality({i \in DOMAIN A : A[i] = v})
                             + Cardinality({i \in DOMAIN B : B[i] = v})

\* sum of two lists that share a point, one of them holding it twice.
C13_Witness ==
    /\ Thingified
    /\ ls = sum_(location_list(<<Loc(0, 168), Loc(0, 168)>>),
                 location_list(<<Loc(0, 168), Loc(0, 0)>>))
    /\ out.st = "ok"
    /\ Len(out.val) = 4

-----------------------------------------------------------------------------
(* Properties of concurrent resolution.                                    *)

\* C14: resolution is pure and safe to run concurrently: under any
\* interleaving of thingify calls against one provider every call returns
\* what it returns when run alone, and the provider and the expressions stay
\* as they are.
C14_ConcurrentCallsAsAlone ==
    /\ morph \in Morphologies
    /\ \A t \in DOMAIN running :
           /\ running[t].pc # "idle" => running[t].e \in ConcurrentCalls
           /\ running[t].pc = "done" => running[t].o = running[t].alone

-----------------------------------------------------------------------------
(* Properties of the mechanism.                                            *)

Instantiated == mech.pc # "none" /\ mech.op = "instantiate"

\* The ions that the mechanism declares in one of its two ion tables.
DeclaredIons == Range(mech.ion_state_table) \cup Range(mech.ion_index_table)

\* C15: instantiate fails with a logic error whenever the mechanism declares
\* an ion, in its ion state table or in its ion index table, that
\* shared.ion_data has no entry for; this holds for every layout, the layout
\* without sites included.
C15_MissingIonIsFatal ==
    (Instantiated /\ \E ion \in DeclaredIons : ion \notin DOMAIN mech.shared.ion_data)
        => mech.st = "logic_error"

\* After a successful instantiate on a layout with sites.
InstantiatedWithSites == Instantiated /\ mech.st = "ok" /\ mech.width_ > 0

width_padded_ == round_up(mech.width_, mech.alignment)

\* C16: after a successful instantiate with width w > 0 and padded width
\* W >= w the data block has (1 + n_field) * W entries; entries [0, w) hold
\* the weights of the layout; field i is bound to the sub-array starting at
\* (i + 1) * W, whose first w entries hold the default of the field when one
\* is declared and NaN otherwise; the padding [w, W) of every sub-array is
\* NaN; no two sub-arrays overlap.
C16_DataBlockLayout ==
    InstantiatedWithSites =>
        LET w == mech.width_
            W == width_padded_
            n_field == Len(mech.field_table)
            start(a) == IF a = 0 THEN mech.weight_ ELSE mech.field_ptr[a]
        IN  /\ W >= w /\ W % mech.alignment = 0 /\ W - w < mech.alignment
            /\ Len(mech.data_) = (1 + n_field) * W
            /\ mech.weight_ = 0
            /\ device_view(mech.data_, 0, w) = mech.pos_data.weight
            /\ \A i \in 1..n_field :
                   /\ mech.field_ptr[i] = i * W
                   /\ \A k \in 1..w :
                          mech.data_[mech.field_ptr[i] + k] =
                              IF mech.field_table[i] \in DOMAIN mech.field_default_table
                              THEN mech.field_default_table[mech.field_table[i]]
                              ELSE NaN
            /\ \A a \in 0..n_field : \A k \in (w + 1)..W : mech.data_[start(a) + k] = NaN
            /\ \A a \in 0..n_field, b \in 0..n_field :
                   a # b => (start(a) + W <= start(b) \/ start(b) + W <= start(a))
            /\ \A a \in 0..n_field : 0 <= start(a) /\ start(a) + W <= Len(mech.data_)

\* Two fields, one of them with a default, on two sites padded to four.
C16_Witness ==
    /\ InstantiatedWithSites
    /\ mech.width_ = 2 /\ width_padded_ = 4
    /\ mech.field_table = <<"gbar", "e">>
    /\ "gbar" \in DOMAIN mech.field_default_table
    /\ mech.data_ = <<11, 12, NaN, NaN, 7, 7, NaN, NaN, NaN, NaN, NaN, NaN>>

\* C17: after a successful instantiate with width w > 0 the index block has
\* (1 + n_ion) * W entries, node_index[j] is the CV of instance j, and for
\* every declared ion k and instance j the entry ion_index_k[j] is the slot
\* of that CV in the node index of the ion, the CVs of the layout being a
\* sorted sub-sequence of the CVs of the ion.
C17_IndexBlockLayout ==
    InstantiatedWithSites =>
        LET w == mech.width_
            W == width_padded_
            n_ion == Len(mech.ion_index_table)
        IN  /\ Len(mech.indices_) = (1 + n_ion) * W
            /\ mech.node_index_ = 0
            /\ \A j \in 1..w : mech.indices_[mech.node_index_ + j] = mech.pos_data.cv[j]
            /\ \A k \in 1..n_ion : \A j \in 1..w :
                   LET ion_node_index == mech.shared.ion_data[mech.ion_index_table[k]]
                       slot == mech.indices_[mech.ion_index_ptr[k] + j]
                   IN  /\ 0 <= slot /\ slot < Len(ion_node_index)
                       /\ ion_node_index[slot + 1] = mech.pos_data.cv[j]

\* Two ions, three instances of which two are on one CV.
C17_Witness ==
    /\ InstantiatedWithSites
    /\ mech.ion_index_table = <<"ca", "na">>
    /\ mech.pos_data.cv = <<1, 1, 3>>
    /\ mech.alignment = 1
    /\ mech.indices_ = <<1, 1, 3, 1, 1, 3, 0, 0, 2>>

\* A call of set_parameter or set_global fails.
ParameterFails(M, key, values) ==
    value_by_key(M.field_table, key) = 0 \/ Len(values) # M.width_

\* What a call leaves alone in any case: the tables, the pointers, the
\* index block and the width.
MechFrame ==
    /\ mech'.field_table = mech.field_table
    /\ mech'.field_default_table = mech.field_default_table
    /\ mech'.field_ptr = mech.field_ptr
    /\ mech'.weight_ = mech.weight_
    /\ mech'.indices_ = mech.indices_
    /\ mech'.node_index_ = mech.node_index_
    /\ mech'.ion_index_ptr = mech.ion_index_ptr
    /\ mech'.width_ = mech.width_

SetParameterStep ==
    LET key == mech'.key
        values == mech'.values
    IN  /\ MechFrame
        /\ mech'.global_table = mech.global_table
        /\ Len(mech'.data_) = Len(mech.data_)
        /\ IF ParameterFails(mech, key, values)
           THEN mech'.st = "logic_error" /\ mech'.data_ = mech.data_
           ELSE LET ptr == mech.field_ptr[value_by_key(mech.field_table, key)]
                IN  /\ mech'.st = "ok"
                    /\ \A k \in DOMAIN mech.data_ :
                           mech'.data_[k] =
                               IF ptr < k /\ k <= ptr + mech.width_
                               THEN values[k - ptr] ELSE mech.data_[k]

SetGlobalStep ==
    LET key == mech'.key
        value == mech'.values[1]
    IN  /\ MechFrame
        /\ mech'.data_ = mech.data_
        /\ IF key \notin DOMAIN mech.global_table
           THEN mech'.st = "logic_error" /\ mech'.global_table = mech.global_table
           ELSE /\ mech'.st = "ok"
                /\ mech'.global_table[key] = value
                /\ \A g \in DOMAIN mech.global_table \ {key} :
                       mech'.global_table[g] = mech.global_table[g]

\* C18: set_parameter(key, values) fails when key is no field or when
\* values.size() differs from the width, and set_global(key, value) fails
\* when key is no global; a failing call changes no field and no global; a
\* succeeding call gives the first width entries of the named field (the
\* named global) the given values and changes no other field, global, weight
\* or index.
C18_ParameterUpdates ==
    [][ /\ mech'.op = "set_parameter" => SetParameterStep
        /\ mech'.op = "set_global" => SetGlobalStep ]_vars

\* The second field of an instantiated mechanism set on two sites: the first
\* field keeps its default, the weights stay.
C18_Witness ==
    /\ mech.pc = "instantiated"
    /\ mech.op = "set_parameter" /\ mech.st = "ok"
    /\ mech.key = "e" /\ mech.values = <<5, 6>>
    /\ mech.alignment = 4
    /\ mech.data_ = <<11, 12, NaN, NaN, 7, 7, NaN, NaN, 5, 6, NaN, NaN>>

\* The state that instantiate gives an instance: the identifier, the width,
\* the two blocks, the pointers into them and the ion views.
PerInstanceState(M) ==
    [ mechanism_id_ |-> M.mechanism_id_, width_ |-> M.width_, n_ion_ |-> M.n_ion_,
      data_ |-> M.data_, weight_ |-> M.weight_, field_ptr |-> M.field_ptr,
      indices_ |-> M.indices_, node_index_ |-> M.node_index_,
      ion_index_ptr |-> M.ion_index_ptr, ion_view |-> M.ion_view ]

\* The instance holds what the layout and the tables give and nothing else:
\* the width of the layout, the blocks sized for it, the weights and CVs of
\* the layout, every field at its default or NaN.
FreshOn(M, pos_data) ==
    LET w == Len(pos_data.cv)
        W == round_up(w, M.alignment)
        n_field == Len(M.field_table)
    IN  /\ M.width_ = w
        /\ Len(M.data_) = (1 + n_field) * W
        /\ Len(M.indices_) = (1 + Len(M.ion_index_table)) * W
        /\ \A k \in 1..w :
               /\ M.data_[k] = pos_data.weight[k]
               /\ M.indices_[k] = pos_data.cv[k]
        /\ \A i \in 1..n_field : \A k \in 1..w :
               M.data_[i * W + k] =
                   IF M.field_table[i] \in DOMAIN M.field_default_table
                   THEN M.field_default_table[M.field_table[i]]
                   ELSE NaN

InstantiateStep ==
    IF mech'.st = "ok"
    THEN FreshOn(mech', mech'.pos_data)
    ELSE mech.pc = "instantiated" => PerInstanceState(mech') = PerInstanceState(mech)

\* C30: instantiate re-initialises the per-instance state: after any earlier
\* instantiate and set_parameter calls a successful instantiate leaves the
\* width of the layout, the data and index blocks sized for that width, and
\* every field holding its default or NaN, the layout without sites
\* included; a failed instantiate leaves the state of an instantiated
\* mechanism unchanged.
C30_InstantiateReinitialises ==
    [][ mech'.op = "instantiate" => InstantiateStep ]_vars

-----------------------------------------------------------------------------
(* Properties of the integration domains.                                  *)

RECURSIVE PathWithin(_, _, _, _)
\* a and b are joined by a chain of at most n junctions.
PathWithin(gj, a, b, n) ==
    \/ a = b
    \/ n > 0 /\ \E c \in gap_junctions_on(gj, a) : PathWithin(gj, c, b, n - 1)

Connected(gj, a, b) == PathWithin(gj, a, b, Cardinality(UNION gj))

\* The recipes of the unit tests.
gap_recipe_0 == {{0, 5}, {2, 3}, {3, 7}}

gap_recipe_1 == {}

gap_recipe_2 == {{0, 2}, {0, 3}, {0, 5}, {2, 3}, {2, 5}, {3, 5}}

\* C19: fvm_intdom gives two cells of the gid list the same domain id
\* exactly when gap junctions of the recipe connect them, directly or
\* through other cells; a cell without gap junction has a domain of its own;
\* the count returned is the number of distinct ids.
C19_DomainsAreJunctionComponents ==
    /\ dom.pc = "done" =>
           /\ Len(dom.cell_to_intdom) = Len(dom.gids)
           /\ \A i \in DOMAIN dom.gids, k \in DOMAIN dom.gids :
                  dom.cell_to_intdom[i] = dom.cell_to_intdom[k]
                      <=> Connected(dom.gj, dom.gids[i], dom.gids[k])
           /\ \A i \in DOMAIN dom.gids :
                  gap_junctions_on(dom.gj, dom.gids[i]) = {} =>
                      \A k \in DOMAIN dom.gids \ {i} :
                          dom.cell_to_intdom[k] # dom.cell_to_intdom[i]
           /\ dom.num_dom = Cardinality(Range(dom.cell_to_intdom))
    /\ fvm_intdom(gap_recipe_0, <<11, 5, 2, 3, 0, 8, 7>>).num = 4
    /\ fvm_intdom(gap_recipe_1, <<11, 5, 2, 3, 0, 8, 7>>).num = 7
    /\ fvm_intdom(gap_recipe_2, <<5, 2, 3, 0>>).num = 1

\* A chain of three cells listed with its middle cell last, and a cell
\* without junction in between.
C19_Witness ==
    /\ dom.pc = "done"
    /\ dom.gj = {{2, 3}, {3, 7}}
    /\ dom.gids = <<7, 0, 2, 3>>
    /\ dom.cell_to_intdom = <<0, 1, 0, 0>>
    /\ dom.num_dom = 2

\* The position in the gid list of the first cell of the domain of cell i.
FirstOfDomain(i) ==
    CHOOSE f \in DOMAIN dom.gids :
        /\ Connected(dom.gj, dom.gids[f], dom.gids[i])
        /\ \A k \in 1..(f - 1) : ~Connected(dom.gj, dom.gids[k], dom.gids[i])

\* The ring of every second cell of a group of ten cells, from gid first on.
RingOfEven(first) ==
    {{first + 2 * k, first + ((2 * k + 2) % 10)} : k \in 0..4}

\* C20: the numbering follows the gid list: the ids are 0, 1, 2, ... without
\* gaps and the id of a domain is the rank of its first cell among the first
\* cells of the domains; gids {11,5,2,3,0,8,7} with junctions 0-5 and 2-3-7
\* give {0,1,2,2,1,3,2}; two cell groups with the same pattern of junctions
\* get the same vector of ids.
C20_DomainIdsFollowListOrder ==
    /\ dom.pc = "done" =>
           /\ Range(dom.cell_to_intdom) = 0..(dom.num_dom - 1)
           /\ \A i \in DOMAIN dom.gids :
                  dom.cell_to_intdom[i] =
                      Cardinality({k \in 1..(FirstOfDomain(i) - 1) : FirstOfDomain(k) = k})
    /\ fvm_intdom(gap_recipe_0, <<11, 5, 2, 3, 0, 8, 7>>).cell_to_intdom
           = <<0, 1, 2, 2, 1, 3, 2>>
    /\ fvm_intdom(gap_recipe_1, <<11, 5, 2, 3, 0, 8, 7>>).cell_to_intdom
           = <<0, 1, 2, 3, 4, 5, 6>>
    /\ fvm_intdom(gap_recipe_2, <<5, 2, 3, 0>>).cell_to_intdom = <<0, 0, 0, 0>>
    /\ fvm_intdom(RingOfEven(0) \cup RingOfEven(10), <<0, 1, 2, 3, 4, 5, 6, 7, 8, 9>>)
           = [cell_to_intdom |-> <<0, 1, 0, 2, 0, 3, 0, 4, 0, 5>>, num |-> 6]
    /\ fvm_intdom(RingOfEven(0) \cup RingOfEven(10), <<10, 11, 12, 13, 14, 15, 16, 17, 18, 19>>)
           = fvm_intdom(RingOfEven(0) \cup RingOfEven(10), <<0, 1, 2, 3, 4, 5, 6, 7, 8, 9>>)

\* The first cell of the list is alone, the second domain is listed with a
\* cell of the third in between.
C20_Witness ==
    /\ dom.pc = "done"
    /\ dom.gj = {{0, 3}}
    /\ dom.gids = <<7, 3, 2, 0>>
    /\ dom.cell_to_intdom = <<0, 1, 2, 1>>
    /\ dom.num_dom = 3

-----------------------------------------------------------------------------
(* Properties of the tree algorithms.                                      *)

\* The parent index of the unit tests of child_count and branches.
test_parent_index == <<0, 0, 1, 2, 0, 4, 0, 6, 7, 8, 9, 8, 11, 12>>

\* The branch ids of the tree of the state follow the rule of branches_fast,
\* do not decrease along the nodes and are 0..k-1.
BranchesAsClaimed ==
    LET c == tree.parent_index
        b == tree.branches
        nchild == child_count(c)
    IN  /\ Len(b) = Len(c)
        /\ \A i \in 0..(Len(c) - 1) :
               /\ i = 0 => b[1] = 0
               /\ i > 0 => b[i + 1] # 0
               /\ i > 0 =>
                      LET p == c[i + 1]
                          starts == \A k \in 0..(i - 1) : b[k + 1] # b[i + 1]
                      IN  /\ starts <=> (p = 0 \/ nchild[p + 1] > 1)
                          /\ ~starts => b[i + 1] = b[p + 1]
        /\ \A i \in 1..(Len(c) - 1) : b[i] <= b[i + 1]
        /\ \E k \in 0..Len(c) : Range(b) = 0..(k - 1)

\* C21 as stated: the rule, the order and the numbering hold for the branch
\* ids of every minimal-degree parent index.
C21_BranchesOfMinimalDegreeTree ==
    (tree.pc = "done" /\ is_minimal_degree(tree.parent_index)) => BranchesAsClaimed

\* C21: branches_fast numbers the branches of a minimal-degree parent index
\* with contiguous segments: node 0 alone is branch 0, a node starts a new
\* branch exactly when its parent is the root or has more than one child and
\* otherwise shares the branch of its parent; the ids do not decrease along
\* the nodes and are 0..k-1.  The parent index of the unit test gives
\* [0,1,1,1,2,2,3,3,3,4,4,5,5,5].
C21_BranchesOfContiguousTree ==
    /\ (/\ tree.pc = "done"
        /\ is_minimal_degree(tree.parent_index)
        /\ has_contiguous_segments(tree.parent_index)) => BranchesAsClaimed
    /\ is_minimal_degree(test_parent_index) /\ has_contiguous_segments(test_parent_index)
    /\ child_count(test_parent_index) = <<3, 1, 1, 0, 1, 0, 1, 1, 2, 1, 0, 1, 1, 0>>
    /\ branches_fast(test_parent_index) = <<0, 1, 1, 1, 2, 2, 3, 3, 3, 4, 4, 5, 5, 5>>
    /\ branches_fast(<<0, 0, 1, 2>>) = <<0, 1, 1, 1>>
    /\ branches_fast(<<0, 0, 1, 2, 2, 4>>) = <<0, 1, 1, 2, 3, 3>>
    /\ branches_fast(<<0>>) = <<0>>
    /\ is_minimal_degree(<<0, 0, 1, 2, 0, 4, 5, 4>>)
    /\ ~is_minimal_degree(<<1>>) /\ ~is_minimal_degree(<<0, 2>>)
    /\ ~is_minimal_degree(<<0, 1, 2>>)
    /\ ~has_contiguous_segments(<<0, 0, 1, 2, 2, 3, 4, 2>>)
    /\ ~has_contiguous_segments(<<0, 0, 1, 2, 3, 2, 2, 5>>)
    /\ has_contiguous_segments(<<0, 0, 1, 2, 3, 2, 5, 2>>)
    /\ has_contiguous_segments(<<0, 0, 1, 2, 3, 2, 5, 1>>)
    /\ has_contiguous_segments(<<0>>) /\ has_contiguous_segments(<<>>)

\* A fork below the only child of the root, one arm of two nodes.
C21_Witness ==
    /\ tree.pc = "done"
    /\ tree.parent_index = <<0, 0, 1, 2, 1, 4>>
    /\ tree.branches = <<0, 1, 2, 2, 3, 3>>

-----------------------------------------------------------------------------
(* Properties of the construction of a simulation.                         *)

Constructing == sim.pc \in {"constructed", "failed"}

\* The recipes of the unit tests of the recipe.
NoDecl(n) == [k \in 1..n |-> <<>>]

recipe_sources(n) ==
    custom_recipe(<<custom_cell(1, 0, 0)>>, <<n>>, <<0>>, NoDecl(1), NoDecl(1), NoDecl(1))

recipe_targets(n) ==
    custom_recipe(<<custom_cell(0, 2, 0)>>, <<0>>, <<n>>, NoDecl(1), NoDecl(1), NoDecl(1))

recipe_connections(conns_0, conns_1) ==
    custom_recipe(<<custom_cell(1, 2, 0), custom_cell(2, 1, 0)>>, <<1, 2>>, <<2, 1>>,
                  <<conns_0, conns_1>>, NoDecl(2), NoDecl(2))

recipe_gap_junctions(gjs_0, gjs_1) ==
    custom_recipe(<<custom_cell(0, 0, 3), custom_cell(0, 0, 3)>>, <<0, 0>>, <<0, 0>>,
                  NoDecl(2), <<gjs_0, gjs_1>>, NoDecl(2))

recipe_generators(gens_0, gens_1) ==
    custom_recipe(<<custom_cell(1, 2, 0), custom_cell(2, 1, 0)>>, <<1, 2>>, <<2, 1>>,
                  NoDecl(2), NoDecl(2), <<gens_0, gens_1>>)

conns_1_valid ==
    <<cell_connection(0, 0, 0), cell_connection(0, 0, 0), cell_connection(0, 0, 0)>>

\* The recipe of the state declares no endpoint that is out of range.
EndpointsInRange ==
    /\ BadSourceGid(sim.rec) = {} /\ BadSourceLid(sim.rec) = {}
    /\ BadTargetLid(sim.rec) = {} /\ BadGjLid(sim.rec) = {}
    /\ BadGeneratorLid(sim.rec) = {}

EndpointDefects ==
    {e \in RecipeErrors(sim.rec) : e \notin {"bad_source_description", "bad_target_description"}}

-----------------------------------------------------------------------------
(* Properties of the staged simulation.                                    *)

\* expected_spikes of the test: every trigger makes cell i spike i delays
\* later.
expected_spikes(triggers) ==
    {[source |-> i, time |-> i * chain_delay + t] : i \in ChainCells, t \in triggers}

====
